---- MODULE Spec2Model ----
(***************************************************************************)
(* Boundary guards of the gateway:                                         *)
(*   - src/telegram/webhook.ts      webhook secret strength, startup,      *)
(*                                  abort and the request listener         *)
(*   - src/infra/install-safe-path.ts  plugin install path resolution      *)
(*   - the security notes           rate limiter, guarded fetch, Origin    *)
(*                                  check, foldMarkerText                  *)
(*                                                                         *)
(* A JavaScript string is modelled as a sequence of code points, each code *)
(* point written as a TLA+ string ("a", "/", "U+1F600").  Its .length is   *)
(* the number of UTF-16 code units, so an astral code point counts twice,  *)
(* while for..of visits code points.  Paths follow node:path for POSIX.    *)
(***************************************************************************)
EXTENDS Integers, Sequences, FiniteSets, TLC

VARIABLES
    opts,               \* argument of startTelegramWebhook: secret, diagnostics
    pc,                 \* position of startTelegramWebhook
    secret,             \* local const secret (webhook.ts:62)
    error,              \* kind of the Error startTelegramWebhook threw, or "none"
    botCreated,         \* createTelegramBot was called
    handlerSecretToken, \* secretToken handed to webhookCallback, <<>> before
    heartbeatStarted,   \* startDiagnosticHeartbeat was called
    setWebhookCalls,    \* secret_token of every bot.api.setWebhook call
    listening,          \* server.listen completed
    params,             \* argument of resolveSafeInstallDir: baseDir, id
    fsTarget,           \* what the filesystem holds at targetDir
    lstatThrows,        \* whether fs.lstatSync(targetDir) throws
    dirLinks,           \* directories that are symbolic links, with targets
    result,             \* outcome of resolveSafeInstallDir
    fsCalls,            \* filesystem calls resolveSafeInstallDir made, in order
    limiterConfig,      \* argument of createAuthRateLimiter
    now,                \* the clock AuthRateLimiter reads
    attempts,           \* AuthRateLimiter's map from key to AttemptRecord
    inflight,           \* each request context's recordAttempt call, or Idle
    lastDecision,       \* the Decision AuthRateLimiter returned last
    serialAttempts,     \* the map had the completed calls run one by one
    fetchPolicy,        \* policy argument of fetchWithSsrfGuard
    fetchPc,            \* position of fetchWithSsrfGuard
    currentUrl,         \* hostname of the URL of the present hop
    nextUrl,            \* hostname of the last redirect target, "" before
    redirectCount,      \* redirects received
    fetchOutcome,       \* how fetchWithSsrfGuard ended, or "none"
    requestsIssued,     \* hostnames HTTP requests were sent to, in order
    pairParams,         \* baseDir and the ids of two resolveSafeInstallDir calls
    pairResults,        \* outcomes of the two calls, <<>> before
    abortSignal,        \* opts.abortSignal: "none" when not given, "idle" or "aborted"
    shutdownRegistered, \* the abort listener of webhook.ts:193 is registered
    serverClosed,       \* server.close was called
    botStopped,         \* bot.stop was called
    webhookPaths,       \* path and healthPath of webhook.ts:58-59
    req,                \* url and method of the request the server received
    reqPc,              \* position of the request: "listening", "pending" or "done"
    guard,              \* the body-limit guard of the request
    headersSent,        \* res.headersSent
    events,             \* what was done for the request, in order
    originHeader,       \* req.headers.origin: [present, value]
    hostHeader,         \* req.headers.host: [present, value]
    upgrade,            \* how the Origin check of the upgrade ended, "none" before
    markerText,         \* argument of foldMarkerText
    folded              \* what foldMarkerText returned: [done, text]

webhookVars == <<opts, pc, secret, error, botCreated, handlerSecretToken,
                 heartbeatStarted, setWebhookCalls, listening>>
installVars == <<params, fsTarget, lstatThrows, dirLinks, result, fsCalls>>
limiterVars == <<limiterConfig, now, attempts, inflight, lastDecision,
                 serialAttempts>>
fetchVars == <<fetchPolicy, fetchPc, currentUrl, nextUrl, redirectCount,
               fetchOutcome, requestsIssued>>
pairVars == <<pairParams, pairResults>>
abortVars == <<abortSignal, shutdownRegistered, serverClosed, botStopped>>
requestVars == <<webhookPaths, req, reqPc, guard, headersSent, events>>
originVars == <<originHeader, hostHeader, upgrade>>
markerVars == <<markerText, folded>>
\* everything but the state of one component
notWebhook == <<installVars, limiterVars, fetchVars,
    pairVars, requestVars, originVars, markerVars>>
notInstall == <<webhookVars, limiterVars, fetchVars, pairVars,
    abortVars, requestVars, originVars, markerVars>>
notLimiter == <<webhookVars, installVars, fetchVars, pairVars,
    abortVars, requestVars, originVars, markerVars>>
notFetch == <<webhookVars, installVars, limiterVars, pairVars,
    abortVars, requestVars, originVars, markerVars>>
notPair == <<webhookVars, installVars, limiterVars, fetchVars,
    abortVars, requestVars, originVars, markerVars>>
notRequest == <<webhookVars, installVars, limiterVars, fetchVars,
    pairVars, abortVars, originVars, markerVars>>
notOrigin == <<webhookVars, installVars, limiterVars, fetchVars,
    pairVars, abortVars, requestVars, markerVars>>
notMarker == <<webhookVars, installVars, limiterVars, fetchVars,
    pairVars, abortVars, requestVars, originVars>>
vars == <<opts, pc, secret, error, botCreated, handlerSecretToken,
          heartbeatStarted, setWebhookCalls, listening,
          params, fsTarget, lstatThrows, dirLinks, result, fsCalls,
          limiterConfig, now, attempts, inflight, lastDecision,
          serialAttempts,
          fetchPolicy, fetchPc, currentUrl, nextUrl, redirectCount,
          fetchOutcome, requestsIssued,
          pairParams, pairResults,
          abortSignal, shutdownRegistered, serverClosed, botStopped,
          webhookPaths, req, reqPc, guard, headersSent, events,
          originHeader, hostHeader, upgrade,
          markerText, folded>>

(***************************************************************************)
(* Bounds                                                                  *)
(***************************************************************************)
\* longest generated secret body, in code points
MaxSecretLen == 34
\* most distinct characters a generated secret cycles through
MaxDistinct == 14
\* longest generated plugin id, in code points
MaxIdLen == 3
\* maxAttempts, windowMs and lockoutMs of the rate limiter configurations
MaxAttempts == 2
WindowMs == 2
LockoutMs == 3
\* a lockoutMs shorter than windowMs
ShortLockoutMs == 1
\* last instant of the rate limiter's clock
MaxNow == 4
\* longest generated marker text, in code points
MaxTextLen == 3
\* largest maxRedirects of a fetch policy
MaxRedirects == 2

(***************************************************************************)
(* Strings                                                                 *)
(***************************************************************************)
\* code points above U+FFFF: two UTF-16 code units each
AstralChars == {"U+1F600", "U+1F601", "U+1F602", "U+1F603", "U+1F604",
                "U+1F605", "U+1F606", "U+1F607", "U+1F608", "U+1F609",
                "U+1F60A", "U+1F60B", "U+1F60C", "U+1F60D", "U+1F60E",
                "U+1F60F"}

\* white space and line terminators removed by String.prototype.trim
WhiteSpace == {" ", "\t", "\n", "\r"}

RECURSIVE StrLength(_)
\* String.prototype.length: UTF-16 code units
StrLength(s) ==
    IF s = <<>> THEN 0
    ELSE (IF Head(s) \in AstralChars THEN 2 ELSE 1) + StrLength(Tail(s))

RECURSIVE TrimStart(_)
TrimStart(s) ==
    IF s # <<>> /\ Head(s) \in WhiteSpace THEN TrimStart(Tail(s)) ELSE s

RECURSIVE TrimEnd(_)
TrimEnd(s) ==
    IF s # <<>> /\ s[Len(s)] \in WhiteSpace
    THEN TrimEnd(SubSeq(s, 1, Len(s) - 1)) ELSE s

\* String.prototype.trim
Trim(s) == TrimEnd(TrimStart(s))

\* number of occurrences of code point c in s: freq[char] after the loop
Freq(s, c) == Cardinality({i \in 1..Len(s) : s[i] = c})

(***************************************************************************)
(* Exact arithmetic on naturals beyond 32 bits.  A number is a sequence of *)
(* limbs, least significant first; every recursion is by halving, so its   *)
(* depth stays logarithmic.                                                *)
(***************************************************************************)
LimbBase == 10 * 10 * 10

Max(S) == CHOOSE x \in S : \A y \in S : y <= x

\* drop the zero limbs at the most significant end
BigStrip(a) ==
    LET nz == {k \in 1..Len(a) : a[k] # 0}
    IN  IF nz = {} THEN <<>> ELSE SubSeq(a, 1, Max(nz))

\* one carry pass: every limb keeps its low part and receives the carry
\* of the limb below it
BigCarryPass(a) ==
    <<>> \o [k \in 1..(Len(a) + 1) |->
                (IF k <= Len(a) THEN a[k] % LimbBase ELSE 0)
              + (IF k > 1 THEN a[k - 1] \div LimbBase ELSE 0)]

RECURSIVE BigNormalize(_)
\* carry passes until every limb is below LimbBase
BigNormalize(a) ==
    IF \A k \in 1..Len(a) : a[k] < LimbBase
    THEN BigStrip(a)
    ELSE BigNormalize(BigCarryPass(a))

RECURSIVE BigConv(_, _, _, _, _)
\* sum of a[i] * b[k + 1 - i] for i in lo..hi
BigConv(a, b, k, lo, hi) ==
    IF lo > hi THEN 0
    ELSE IF lo = hi THEN a[lo] * b[k + 1 - lo]
    ELSE LET mid == (lo + hi) \div 2
         IN  BigConv(a, b, k, lo, mid) + BigConv(a, b, k, mid + 1, hi)

\* a * b
BigMul(a, b) ==
    IF a = <<>> \/ b = <<>> THEN <<>>
    ELSE BigNormalize(
           <<>> \o [k \in 1..(Len(a) + Len(b) - 1) |->
                      BigConv(a, b, k, Max({1, k + 1 - Len(b)}),
                              IF k < Len(a) THEN k ELSE Len(a))])

\* the number m as limbs
BigOf(m) == BigNormalize(<<m>>)

RECURSIVE BigPow(_, _)
\* m^e by repeated squaring
BigPow(m, e) ==
    IF e = 0 THEN <<1>>
    ELSE LET h  == BigPow(m, e \div 2)
             sq == BigMul(h, h)
         IN  IF e % 2 = 1 THEN BigMul(sq, BigOf(m)) ELSE sq

\* sign of a - b, both normalized
BigCmp(a, b) ==
    IF Len(a) > Len(b) THEN 1
    ELSE IF Len(a) < Len(b) THEN -1
    ELSE LET diff == {k \in 1..Len(a) : a[k] # b[k]}
         IN  IF diff = {} THEN 0
             ELSE IF a[Max(diff)] > b[Max(diff)] THEN 1 ELSE -1

(***************************************************************************)
(* webhook.ts: secret strength                                             *)
(***************************************************************************)
MIN_WEBHOOK_SECRET_LENGTH == 32
\* MIN_WEBHOOK_SECRET_ENTROPY = 3.5 bits per character, as the fraction 7/2
MIN_WEBHOOK_SECRET_ENTROPY_NUM == 7
MIN_WEBHOOK_SECRET_ENTROPY_DEN == 2

RECURSIVE FreqPowers(_, _, _, _)
\* product over the code points at positions lo..hi of str of
\* (freq of that code point)^den; over the whole of str this is the product
\* over the distinct characters of count^(den * count)
FreqPowers(str, lo, hi, den) ==
    IF lo > hi THEN <<1>>
    ELSE IF lo = hi THEN BigPow(Freq(str, str[lo]), den)
    ELSE LET mid == (lo + hi) \div 2
         IN  BigMul(FreqPowers(str, lo, mid, den),
                    FreqPowers(str, mid + 1, hi, den))

\* sign of  (sum over distinct chars of -(count/total) * log2(count/total))
\*          - num/den,
\* decided exactly: the sum is >= num/den  iff
\*   total^(den * n) >= 2^(num * total) * product of count^(den * count),
\* n being the number of code points of str (the sum of the counts)
EntropySumCmp(str, total, num, den) ==
    BigCmp(BigPow(total, den * Len(str)),
           BigMul(BigPow(2, num * total), FreqPowers(str, 1, Len(str), den)))

\* sign of calculateEntropy(str) - num/den: the loop counts code points
\* (for..of) and divides each count by str.length (UTF-16 code units)
calculateEntropy(str, num, den) ==
    IF StrLength(str) = 0
    THEN (IF num > 0 THEN -1 ELSE 0)
    ELSE EntropySumCmp(str, StrLength(str), num, den)

\* SecretValidation without the entropy rule
SecretValidation_NoEntropyRule(s) ==
    IF s = <<>> THEN "EmptySecret"
    ELSE IF StrLength(s) < MIN_WEBHOOK_SECRET_LENGTH THEN "TooShort"
    ELSE "ok"

\* SecretValidation testing the entropy before the length
SecretValidation_EntropyFirst(s) ==
    IF s = <<>> THEN "EmptySecret"
    ELSE IF calculateEntropy(s, MIN_WEBHOOK_SECRET_ENTROPY_NUM,
                             MIN_WEBHOOK_SECRET_ENTROPY_DEN) < 0
         THEN "LowEntropy"
    ELSE IF StrLength(s) < MIN_WEBHOOK_SECRET_LENGTH THEN "TooShort"
    ELSE "ok"

\* SecretValidation without the length rule
SecretValidation_NoLengthRule(s) ==
    IF s = <<>> THEN "EmptySecret"
    ELSE IF calculateEntropy(s, MIN_WEBHOOK_SECRET_ENTROPY_NUM,
                             MIN_WEBHOOK_SECRET_ENTROPY_DEN) < 0
         THEN "LowEntropy"
    ELSE "ok"

\* the checks of webhook.ts:64-88 on the trimmed secret, in the code's order:
\* the kind of the Error thrown, or "ok"
SecretValidation(s) ==
    IF s = <<>> THEN "EmptySecret"
    ELSE IF StrLength(s) < MIN_WEBHOOK_SECRET_LENGTH THEN "TooShort"
    ELSE IF calculateEntropy(s, MIN_WEBHOOK_SECRET_ENTROPY_NUM,
                             MIN_WEBHOOK_SECRET_ENTROPY_DEN) < 0
         THEN "LowEntropy"
    ELSE "ok"

\* const secret = typeof opts.secret === "string" ? opts.secret.trim() : ""
TrimmedSecret(o) == IF o.secretIsString THEN Trim(o.secret) ELSE <<>>

(***************************************************************************)
(* Secrets handed to startTelegramWebhook                                  *)
(***************************************************************************)
Letters == <<"a", "b", "c", "d", "e", "f", "g", "h", "i", "j", "k", "l", "m",
             "n", "o", "p">>
Emoji == <<"U+1F600", "U+1F601", "U+1F602", "U+1F603", "U+1F604", "U+1F605",
           "U+1F606", "U+1F607", "U+1F608", "U+1F609", "U+1F60A", "U+1F60B",
           "U+1F60C", "U+1F60D", "U+1F60E", "U+1F60F">>
\* letters, the first of them replaced by an astral code point
Mixed == [i \in 1..Len(Letters) |-> IF i = 1 THEN Emoji[1] ELSE Letters[i]]

\* n code points cycling through the first k characters of alpha followed by
\* the first h of them again (those h occur about twice as often)
CycleString(alpha, k, h, n) ==
    [i \in 1..n |-> LET j == ((i - 1) % (k + h)) + 1
                    IN  IF j <= k THEN alpha[j] ELSE alpha[j - k]]

\* the example secret of the repository's test documentation
DocSecret ==
    <<"t","e","s","t","-","w","e","b","h","o","o","k","-","s","e","c","r","e",
      "t","-","w","i","t","h","-","s","u","f","f","i","c","i","e","n","t","-",
      "e","n","t","r","o","p","y","-","f","o","r","-","s","e","c","u","r","i",
      "t","y">>

\* lengths (in code points) of the generated secrets: empty, tiny, around
\* 16 (32 code units of astral characters) and around 32
SecretLens == {0, 1, 15, 16, 17} \cup (31..MaxSecretLen)

SecretBodies ==
    {CycleString(alpha, k, h, n) :
        alpha \in {Letters, Emoji, Mixed}, k \in 1..MaxDistinct,
        h \in {0, 4}, n \in SecretLens}
    \cup {DocSecret}

\* opts.secret: absent, or a string with or without surrounding white space
SecretOpts ==
    {[secretIsString |-> FALSE, secret |-> <<>>]}
    \cup {[secretIsString |-> TRUE, secret |-> b] : b \in SecretBodies}
    \cup {[secretIsString |-> TRUE, secret |-> <<" ">> \o b \o <<"\t", "\n">>] :
             b \in SecretBodies}

(***************************************************************************)
(* webhook.ts: startTelegramWebhook                                        *)
(***************************************************************************)
SecretErrors == {"EmptySecret", "TooShort", "LowEntropy"}

InitWebhook ==
    /\ opts \in SecretOpts
    /\ pc = "init"
    /\ secret = <<>>
    /\ error = "none"
    /\ botCreated = FALSE
    /\ handlerSecretToken = <<>>
    /\ heartbeatStarted = FALSE
    /\ setWebhookCalls = <<>>
    /\ listening = FALSE
    \* resolveSafeInstallDir is not called
    /\ params = [baseDir |-> <<>>, id |-> <<>>]
    /\ fsTarget = "absent"
    /\ lstatThrows = FALSE
    /\ dirLinks = <<>>
    /\ result = [kind |-> "idle", path |-> <<>>, error |-> "none"]
    /\ fsCalls = <<>>
    \* no AuthRateLimiter is in use
    /\ limiterConfig = [maxAttempts |-> 1, windowMs |-> 1, lockoutMs |-> 1,
                        exemptLoopback |-> TRUE]
    /\ now = 0
    /\ attempts = <<>>
    /\ inflight = <<>>
    /\ lastDecision = [op |-> "none"]
    /\ serialAttempts = <<>>
    \* fetchWithSsrfGuard is not called
    /\ fetchPolicy = [allowPrivateIPs |-> FALSE, allowLoopback |-> FALSE,
                      maxRedirects |-> 0]
    /\ fetchPc = "off"
    /\ currentUrl = ""
    /\ nextUrl = ""
    /\ redirectCount = 0
    /\ fetchOutcome = "none"
    /\ requestsIssued = <<>>
    \* no pair of identifiers is resolved
    /\ pairParams = [baseDir |-> <<>>, idA |-> <<>>, idB |-> <<>>]
    /\ pairResults = <<[kind |-> "idle", path |-> <<>>, error |-> "none"]>>
    \* opts.abortSignal is not given
    /\ abortSignal = "none"
    /\ shutdownRegistered = FALSE
    /\ serverClosed = FALSE
    /\ botStopped = FALSE
    \* the server receives no request
    /\ webhookPaths = [path |-> "", healthPath |-> ""]
    /\ req = [url |-> "", method |-> ""]
    /\ reqPc = "off"
    /\ guard = [installed |-> FALSE, trippedAtInstall |-> FALSE, tripped |-> FALSE, disposed |-> 0]
    /\ headersSent = FALSE
    /\ events = <<>>
    \* no WebSocket upgrade is received
    /\ originHeader = [present |-> FALSE, value |-> <<>>]
    /\ hostHeader = [present |-> FALSE, value |-> <<>>]
    /\ upgrade = "off"
    \* foldMarkerText is not called
    /\ markerText = <<>>
    /\ folded = [done |-> TRUE, text |-> <<>>]

\* startTelegramWebhook creating the bot before it checks the secret
StartTelegramWebhook_BotFirst ==
    /\ pc = "init"
    /\ LET s       == TrimmedSecret(opts)
           verdict == SecretValidation(s)
       IN  /\ secret' = s
           /\ botCreated' = TRUE
           /\ IF verdict # "ok"
              THEN /\ pc' = "threw"
                   /\ error' = verdict
                   /\ UNCHANGED <<handlerSecretToken, heartbeatStarted,
                                  setWebhookCalls>>
              ELSE /\ pc' = "awaitSetWebhook"
                   /\ error' = "none"
                   /\ handlerSecretToken' = s
                   /\ \E diagnosticsEnabled \in BOOLEAN :
                          heartbeatStarted' = diagnosticsEnabled
                   /\ setWebhookCalls' = Append(setWebhookCalls, s)
    /\ UNCHANGED <<opts, listening>>
    /\ UNCHANGED notWebhook
    /\ UNCHANGED abortVars

\* startTelegramWebhook registering opts.secret as it was passed
StartTelegramWebhook_UntrimmedToken ==
    /\ pc = "init"
    /\ LET s       == TrimmedSecret(opts)
           verdict == SecretValidation(s)
       IN  /\ secret' = s
           /\ IF verdict # "ok"
              THEN /\ pc' = "threw"
                   /\ error' = verdict
                   /\ UNCHANGED <<botCreated, handlerSecretToken,
                                  heartbeatStarted, setWebhookCalls>>
              ELSE /\ pc' = "awaitSetWebhook"
                   /\ error' = "none"
                   /\ botCreated' = TRUE
                   /\ handlerSecretToken' = s
                   /\ \E diagnosticsEnabled \in BOOLEAN :
                          heartbeatStarted' = diagnosticsEnabled
                   /\ setWebhookCalls' = Append(setWebhookCalls, opts.secret)
    /\ UNCHANGED <<opts, listening>>
    /\ UNCHANGED notWebhook
    /\ UNCHANGED abortVars

\* the synchronous part of startTelegramWebhook, webhook.ts:58-180: the
\* secret checks, then createTelegramBot, webhookCallback, the diagnostic
\* heartbeat, createServer and the call of bot.api.setWebhook, which is
\* awaited.  A failed check throws before any of them.
StartTelegramWebhook ==
    /\ pc = "init"
    /\ LET s       == TrimmedSecret(opts)
           verdict == SecretValidation(s)
       IN  /\ secret' = s
           /\ IF verdict # "ok"
              THEN /\ pc' = "threw"
                   /\ error' = verdict
                   /\ UNCHANGED <<botCreated, handlerSecretToken,
                                  heartbeatStarted, setWebhookCalls>>
              ELSE /\ pc' = "awaitSetWebhook"
                   /\ error' = "none"
                   /\ botCreated' = TRUE
                   /\ handlerSecretToken' = s
                   \* isDiagnosticsEnabled(opts.config)
                   /\ \E diagnosticsEnabled \in BOOLEAN :
                          heartbeatStarted' = diagnosticsEnabled
                   /\ setWebhookCalls' = Append(setWebhookCalls, s)
    /\ UNCHANGED <<opts, listening>>
    /\ UNCHANGED notWebhook
    /\ UNCHANGED abortVars

\* bot.api.setWebhook succeeded: server.listen is called and awaited
SetWebhookResolves ==
    /\ pc = "awaitSetWebhook"
    /\ pc' = "awaitListen"
    /\ UNCHANGED <<opts, secret, error, botCreated, handlerSecretToken,
                   heartbeatStarted, setWebhookCalls, listening>>
    /\ UNCHANGED notWebhook
    /\ UNCHANGED abortVars

\* a failure of bot.api.setWebhook logged and dropped
SetWebhookRejects_Swallowed ==
    /\ pc = "awaitSetWebhook"
    /\ pc' = "awaitListen"
    /\ error' = "SetWebhookFailed"
    /\ UNCHANGED <<opts, secret, botCreated, handlerSecretToken,
                   heartbeatStarted, setWebhookCalls, listening>>
    /\ UNCHANGED notWebhook
    /\ UNCHANGED abortVars

\* bot.api.setWebhook failed: the await throws, server.listen is not reached
SetWebhookRejects ==
    /\ pc = "awaitSetWebhook"
    /\ pc' = "threw"
    /\ error' = "SetWebhookFailed"
    /\ UNCHANGED <<opts, secret, botCreated, handlerSecretToken,
                   heartbeatStarted, setWebhookCalls, listening>>
    /\ UNCHANGED notWebhook
    /\ UNCHANGED abortVars

\* the listen callback resolves the promise (webhook.ts:182); the abort
\* listener is registered when opts.abortSignal is given (192-194), whether
\* or not the signal has aborted already, and startTelegramWebhook returns
ServerListening ==
    /\ pc = "awaitListen"
    /\ listening' = TRUE
    /\ pc' = "returned"
    /\ shutdownRegistered' = (abortSignal # "none")
    /\ UNCHANGED <<opts, secret, error, botCreated, handlerSecretToken,
                   heartbeatStarted, setWebhookCalls, abortSignal,
                   serverClosed, botStopped>>
    /\ UNCHANGED notWebhook

\* opts.abortSignal aborts.  The abort event is dispatched once, to the
\* listeners registered at that moment: shutdown (webhook.ts:185-191) runs
\* if it is among them and, registered with once, is removed.
Abort ==
    /\ abortSignal = "idle"
    /\ abortSignal' = "aborted"
    /\ IF shutdownRegistered
       THEN /\ listening' = FALSE
            /\ serverClosed' = TRUE
            /\ botStopped' = TRUE
            /\ shutdownRegistered' = FALSE
       ELSE UNCHANGED <<listening, serverClosed, botStopped,
                        shutdownRegistered>>
    /\ UNCHANGED <<opts, pc, secret, error, botCreated, handlerSecretToken,
                   heartbeatStarted, setWebhookCalls>>
    /\ UNCHANGED notWebhook

NextWebhook ==
    \/ StartTelegramWebhook
    \/ SetWebhookResolves
    \/ SetWebhookRejects
    \/ ServerListening

\* secrets for the runs that look at what follows the secret checks
StartupOpts ==
    {[secretIsString |-> TRUE, secret |-> b] :
        b \in {DocSecret, <<" ">> \o DocSecret \o <<"\n">>, <<>>,
               CycleString(Letters, 2, 0, 32)}
              \cup {CycleString(alpha, k, 0, 32) :
                       alpha \in {Letters, Mixed}, k \in 12..16}}

InitWebhookAbort ==
    /\ opts \in StartupOpts
    /\ pc = "init"
    /\ secret = <<>>
    /\ error = "none"
    /\ botCreated = FALSE
    /\ handlerSecretToken = <<>>
    /\ heartbeatStarted = FALSE
    /\ setWebhookCalls = <<>>
    /\ listening = FALSE
    /\ abortSignal \in {"none", "idle"}
    /\ shutdownRegistered = FALSE
    /\ serverClosed = FALSE
    /\ botStopped = FALSE
    \* resolveSafeInstallDir is not called
    /\ params = [baseDir |-> <<>>, id |-> <<>>]
    /\ fsTarget = "absent"
    /\ lstatThrows = FALSE
    /\ dirLinks = <<>>
    /\ result = [kind |-> "idle", path |-> <<>>, error |-> "none"]
    /\ fsCalls = <<>>
    \* no AuthRateLimiter is in use
    /\ limiterConfig = [maxAttempts |-> 1, windowMs |-> 1, lockoutMs |-> 1,
                        exemptLoopback |-> TRUE]
    /\ now = 0
    /\ attempts = <<>>
    /\ inflight = <<>>
    /\ lastDecision = [op |-> "none"]
    /\ serialAttempts = <<>>
    \* fetchWithSsrfGuard is not called
    /\ fetchPolicy = [allowPrivateIPs |-> FALSE, allowLoopback |-> FALSE,
                      maxRedirects |-> 0]
    /\ fetchPc = "off"
    /\ currentUrl = ""
    /\ nextUrl = ""
    /\ redirectCount = 0
    /\ fetchOutcome = "none"
    /\ requestsIssued = <<>>
    \* no pair of identifiers is resolved
    /\ pairParams = [baseDir |-> <<>>, idA |-> <<>>, idB |-> <<>>]
    /\ pairResults = <<[kind |-> "idle", path |-> <<>>, error |-> "none"]>>
    \* the server receives no request
    /\ webhookPaths = [path |-> "", healthPath |-> ""]
    /\ req = [url |-> "", method |-> ""]
    /\ reqPc = "off"
    /\ guard = [installed |-> FALSE, trippedAtInstall |-> FALSE, tripped |-> FALSE, disposed |-> 0]
    /\ headersSent = FALSE
    /\ events = <<>>
    \* no WebSocket upgrade is received
    /\ originHeader = [present |-> FALSE, value |-> <<>>]
    /\ hostHeader = [present |-> FALSE, value |-> <<>>]
    /\ upgrade = "off"
    \* foldMarkerText is not called
    /\ markerText = <<>>
    /\ folded = [done |-> TRUE, text |-> <<>>]

NextWebhookAbort ==
    \/ StartTelegramWebhook
    \/ SetWebhookResolves
    \/ SetWebhookRejects
    \/ ServerListening
    \/ Abort

(***************************************************************************)
(* webhook.ts:108-167: the request listener of the server                 *)
(***************************************************************************)
\* opts.path and opts.healthPath: the defaults, a custom path, and one value
\* given for both
WebhookPaths ==
    { [path |-> "/telegram-webhook", healthPath |-> "/healthz"],
      [path |-> "/hook", healthPath |-> "/healthz"],
      [path |-> "/healthz", healthPath |-> "/healthz"] }

RequestUrls ==
    {"/telegram-webhook", "/telegram-webhook/", "/telegram-webhook?x=1",
     "/TELEGRAM-WEBHOOK", "/hook", "/healthz", "/healthz?x=1", "/"}

Methods == {"POST", "GET", "PUT"}

NoGuard ==
    [installed |-> FALSE, trippedAtInstall |-> FALSE, tripped |-> FALSE,
     disposed |-> 0]

\* isDiagnosticsEnabled(opts.config): the heartbeat was started exactly when
\* it is true (webhook.ts:104-106)
DiagnosticsEnabled == heartbeatStarted

\* the listener answering every method but POST with 404 only off the path
Route_AnyMethod(url, method, paths) ==
    IF url = paths.healthPath THEN "health"
    ELSE IF url # paths.path THEN "notFound"
    ELSE "webhook"

\* the two tests at the head of the listener, webhook.ts:109-118
Route(url, method, paths) ==
    IF url = paths.healthPath THEN "health"
    ELSE IF url # paths.path \/ method # "POST" THEN "notFound"
    ELSE "webhook"

\* the guard disposed at line 166 whatever the handler returned
DisposeNow_Always(returnsPromise) == TRUE

\* whether control reaches guard.dispose() at line 166: not when the handler
\* returned a promise (return at 164)
DisposeNow(returnsPromise) == ~returnsPromise

\* the catch callback writing 500 without looking at res.headersSent
FailurePath_AlwaysWriteHead(tripped, sent, diagnostics) ==
    IF tripped THEN <<>>
    ELSE (IF diagnostics THEN <<"logWebhookError">> ELSE <<>>)
         \o <<"runtime.log">> \o <<"writeHead:500">> \o <<"end">>

\* what the catch callback of webhook.ts:143-160 does
FailurePath(tripped, sent, diagnostics) ==
    IF tripped THEN <<>>
    ELSE (IF diagnostics THEN <<"logWebhookError">> ELSE <<>>)
         \o <<"runtime.log">>
         \o (IF ~sent THEN <<"writeHead:500">> ELSE <<>>)
         \o <<"end">>

\* startTelegramWebhook has returned and the server listens
InitRequest ==
    /\ opts = [secretIsString |-> TRUE, secret |-> DocSecret]
    /\ pc = "returned"
    /\ secret = DocSecret
    /\ error = "none"
    /\ botCreated = TRUE
    /\ handlerSecretToken = DocSecret
    /\ heartbeatStarted \in BOOLEAN
    /\ setWebhookCalls = <<DocSecret>>
    /\ listening = TRUE
    /\ webhookPaths \in WebhookPaths
    /\ req = [url |-> "", method |-> ""]
    /\ reqPc = "listening"
    /\ guard = NoGuard
    /\ headersSent = FALSE
    /\ events = <<>>
    \* resolveSafeInstallDir is not called
    /\ params = [baseDir |-> <<>>, id |-> <<>>]
    /\ fsTarget = "absent"
    /\ lstatThrows = FALSE
    /\ dirLinks = <<>>
    /\ result = [kind |-> "idle", path |-> <<>>, error |-> "none"]
    /\ fsCalls = <<>>
    \* no AuthRateLimiter is in use
    /\ limiterConfig = [maxAttempts |-> 1, windowMs |-> 1, lockoutMs |-> 1,
                        exemptLoopback |-> TRUE]
    /\ now = 0
    /\ attempts = <<>>
    /\ inflight = <<>>
    /\ lastDecision = [op |-> "none"]
    /\ serialAttempts = <<>>
    \* fetchWithSsrfGuard is not called
    /\ fetchPolicy = [allowPrivateIPs |-> FALSE, allowLoopback |-> FALSE,
                      maxRedirects |-> 0]
    /\ fetchPc = "off"
    /\ currentUrl = ""
    /\ nextUrl = ""
    /\ redirectCount = 0
    /\ fetchOutcome = "none"
    /\ requestsIssued = <<>>
    \* no pair of identifiers is resolved
    /\ pairParams = [baseDir |-> <<>>, idA |-> <<>>, idB |-> <<>>]
    /\ pairResults = <<[kind |-> "idle", path |-> <<>>, error |-> "none"]>>
    \* opts.abortSignal is not given
    /\ abortSignal = "none"
    /\ shutdownRegistered = FALSE
    /\ serverClosed = FALSE
    /\ botStopped = FALSE
    \* no WebSocket upgrade is received
    /\ originHeader = [present |-> FALSE, value |-> <<>>]
    /\ hostHeader = [present |-> FALSE, value |-> <<>>]
    /\ upgrade = "off"
    \* foldMarkerText is not called
    /\ markerText = <<>>
    /\ folded = [done |-> TRUE, text |-> <<>>]

\* the listener of createServer, webhook.ts:108-167, run for one request up
\* to its return.  trippedAtInstall: the guard is tripped when it returns
\* from installRequestBodyLimitGuard (it has answered the request itself);
\* returnsPromise: handler(req, res) returned a promise.
ReceiveRequest(url, method, trippedAtInstall, returnsPromise) ==
    /\ reqPc = "listening"
    /\ listening
    /\ req' = [url |-> url, method |-> method]
    /\ LET route    == Route(url, method, webhookPaths)
           received == (IF DiagnosticsEnabled THEN <<"logWebhookReceived">>
                        ELSE <<>>) \o <<"installGuard">>
       IN  IF route = "health"
           THEN /\ events' = <<"writeHead:200", "end:ok">>
                /\ headersSent' = TRUE
                /\ reqPc' = "done"
                /\ UNCHANGED guard
           ELSE IF route = "notFound"
           THEN /\ events' = <<"writeHead:404", "end">>
                /\ headersSent' = TRUE
                /\ reqPc' = "done"
                /\ UNCHANGED guard
           ELSE IF trippedAtInstall
           THEN /\ events' = received
                /\ guard' = [installed |-> TRUE, trippedAtInstall |-> TRUE,
                             tripped |-> TRUE, disposed |-> 0]
                /\ headersSent' = TRUE
                /\ reqPc' = "done"
           ELSE IF DisposeNow(returnsPromise)
           THEN /\ events' = received \o <<"handler", "dispose">>
                /\ guard' = [installed |-> TRUE, trippedAtInstall |-> FALSE,
                             tripped |-> FALSE, disposed |-> 1]
                /\ reqPc' = IF returnsPromise THEN "pending" ELSE "done"
                /\ UNCHANGED headersSent
           ELSE /\ events' = received \o <<"handler">>
                /\ guard' = [installed |-> TRUE, trippedAtInstall |-> FALSE,
                             tripped |-> FALSE, disposed |-> 0]
                /\ reqPc' = "pending"
                /\ UNCHANGED headersSent
    /\ UNCHANGED webhookPaths
    /\ UNCHANGED notRequest

\* the body runs over maxBytes or timeoutMs while the handler's promise is
\* pending: the guard trips and answers the request itself
GuardTrips ==
    /\ reqPc = "pending"
    /\ ~guard.tripped
    /\ guard' = [guard EXCEPT !.tripped = TRUE]
    /\ headersSent' = TRUE
    /\ events' = Append(events, "guard answers")
    /\ UNCHANGED <<webhookPaths, req, reqPc>>
    /\ UNCHANGED notRequest

\* the handler starts its own response while its promise is pending
HandlerSendsHeaders ==
    /\ reqPc = "pending"
    /\ ~headersSent
    /\ headersSent' = TRUE
    /\ events' = Append(events, "handler sends headers")
    /\ UNCHANGED <<webhookPaths, req, reqPc, guard>>
    /\ UNCHANGED notRequest

\* the handler's promise is fulfilled: the then callback (134-142), then
\* the finally callback (161-163)
HandlerFulfils ==
    /\ reqPc = "pending"
    /\ events' = events \o <<"fulfilled">>
                  \o (IF DiagnosticsEnabled THEN <<"logWebhookProcessed">>
                      ELSE <<>>)
                  \o <<"dispose">>
    /\ guard' = [guard EXCEPT !.disposed = @ + 1]
    /\ reqPc' = "done"
    /\ UNCHANGED <<webhookPaths, req, headersSent>>
    /\ UNCHANGED notRequest

\* the handler's promise is rejected: the catch callback (143-160), then
\* the finally callback (161-163)
HandlerRejects ==
    /\ reqPc = "pending"
    /\ events' = events \o <<"rejected">>
                  \o FailurePath(guard.tripped, headersSent,
                                 DiagnosticsEnabled)
                  \o <<"dispose">>
    /\ headersSent' = (headersSent \/ ~guard.tripped)
    /\ guard' = [guard EXCEPT !.disposed = @ + 1]
    /\ reqPc' = "done"
    /\ UNCHANGED <<webhookPaths, req>>
    /\ UNCHANGED notRequest

NextRequest ==
    \/ \E url \in RequestUrls, method \in Methods,
          trippedAtInstall \in BOOLEAN, returnsPromise \in BOOLEAN :
          ReceiveRequest(url, method, trippedAtInstall, returnsPromise)
    \/ GuardTrips
    \/ HandlerSendsHeaders
    \/ HandlerFulfils
    \/ HandlerRejects

(***************************************************************************)
(* node:path, POSIX flavour, on strings                                    *)
(***************************************************************************)
\* path.sep
Sep == "/"

\* process.cwd()
Cwd == <<"/", "w", "d">>

Last(q) == q[Len(q)]
Front(q) == SubSeq(q, 1, Len(q) - 1)

RECURSIVE Split(_, _)
\* String.prototype.split on a one-character separator
Split(s, sep) ==
    LET hits == {i \in 1..Len(s) : s[i] = sep}
    IN  IF hits = {} THEN <<s>>
        ELSE LET i == CHOOSE x \in hits : \A y \in hits : x <= y
             IN  <<SubSeq(s, 1, i - 1)>> \o Split(SubSeq(s, i + 1, Len(s)), sep)

RECURSIVE JoinWith(_, _)
\* Array.prototype.join
JoinWith(segs, sep) ==
    IF segs = <<>> THEN <<>>
    ELSE IF Len(segs) = 1 THEN segs[1]
    ELSE segs[1] \o sep \o JoinWith(Tail(segs), sep)

DotDot == <<".", ".">>

RECURSIVE NormalizeSegs(_, _, _)
\* normalizeString: drops empty and "." segments, resolves ".." against the
\* segments kept so far; res is the result so far
NormalizeSegs(segs, res, allowAboveRoot) ==
    IF segs = <<>> THEN res
    ELSE LET x == Head(segs)
         IN  IF x = <<>> \/ x = <<".">>
             THEN NormalizeSegs(Tail(segs), res, allowAboveRoot)
             ELSE IF x = DotDot
             THEN IF res # <<>> /\ Last(res) # DotDot
                  THEN NormalizeSegs(Tail(segs), Front(res), allowAboveRoot)
                  ELSE IF allowAboveRoot
                  THEN NormalizeSegs(Tail(segs), Append(res, x), allowAboveRoot)
                  ELSE NormalizeSegs(Tail(segs), res, allowAboveRoot)
             ELSE NormalizeSegs(Tail(segs), Append(res, x), allowAboveRoot)

\* path.isAbsolute
IsAbsolute(p) == p # <<>> /\ p[1] = Sep

\* path.normalize
Normalize(p) ==
    IF p = <<>> THEN <<".">>
    ELSE LET abs      == IsAbsolute(p)
             trailing == Last(p) = Sep
             body     == JoinWith(NormalizeSegs(Split(p, Sep), <<>>, ~abs), <<Sep>>)
         IN  IF body = <<>>
             THEN (IF abs THEN <<Sep>> ELSE IF trailing THEN <<".", Sep>> ELSE <<".">>)
             ELSE (IF abs THEN <<Sep>> ELSE <<>>) \o body
                  \o (IF trailing THEN <<Sep>> ELSE <<>>)

\* path.join(a, b): the non-empty arguments joined by "/", then normalized
Join(a, b) ==
    IF a = <<>> /\ b = <<>> THEN <<".">>
    ELSE IF a = <<>> THEN Normalize(b)
    ELSE IF b = <<>> THEN Normalize(a)
    ELSE Normalize(a \o <<Sep>> \o b)

\* the segments of path.resolve(p): p itself when absolute, else below cwd
ResolveSegs(p) ==
    IF IsAbsolute(p) THEN NormalizeSegs(Split(p, Sep), <<>>, FALSE)
    ELSE NormalizeSegs(Split(Cwd \o <<Sep>> \o p, Sep), <<>>, FALSE)

\* path.resolve(p)
Resolve(p) == <<Sep>> \o JoinWith(ResolveSegs(p), <<Sep>>)

\* number of leading segments two segment lists share
CommonPrefixLen(a, b) ==
    Max({n \in 0..(IF Len(a) < Len(b) THEN Len(a) ELSE Len(b)) :
            \A i \in 1..n : a[i] = b[i]})

\* path.relative(from, to): ".." for every segment of from below the common
\* ancestor, then the rest of to; "" when both resolve to the same path
Relative(from, to) ==
    LET f == ResolveSegs(from)
        t == ResolveSegs(to)
        n == CommonPrefixLen(f, t)
    IN  JoinWith([i \in 1..(Len(f) - n) |-> DotDot] \o SubSeq(t, n + 1, Len(t)),
                 <<Sep>>)

\* String.prototype.startsWith
StartsWith(s, prefix) ==
    Len(s) >= Len(prefix) /\ SubSeq(s, 1, Len(prefix)) = prefix

(***************************************************************************)
(* install-safe-path.ts                                                    *)
(***************************************************************************)
UpperCase == <<"A", "B", "C", "D", "E", "F", "G", "H", "I", "J", "K", "L", "M",
               "N", "O", "P", "Q", "R", "S", "T", "U", "V", "W", "X", "Y", "Z">>
LowerCase == <<"a", "b", "c", "d", "e", "f", "g", "h", "i", "j", "k", "l", "m",
               "n", "o", "p", "q", "r", "s", "t", "u", "v", "w", "x", "y", "z">>

\* String.prototype.toLowerCase
ToLowerCase(s) ==
    [i \in 1..Len(s) |->
        IF \E j \in 1..26 : UpperCase[j] = s[i]
        THEN LowerCase[CHOOSE j \in 1..26 : UpperCase[j] = s[i]]
        ELSE s[i]]

RESERVED_NAMES ==
    { <<".">>, <<".", ".">>,
      <<"n","o","d","e","_","m","o","d","u","l","e","s">>,
      <<".","g","i","t">>, <<".","e","n","v">>,
      <<"s","y","s","t","e","m">>, <<"r","o","o","t">>,
      <<"a","d","m","i","n">>, <<"c","o","n","f","i","g">>,
      <<"e","t","c">>, <<"b","i","n">>, <<"s","b","i","n">>,
      <<"b","o","o","t">>, <<"d","e","v">>, <<"p","r","o","c">>,
      <<"s","y","s">> }

RECURSIVE ReplaceAll(_, _, _)
\* String.prototype.replaceAll of a one-character pattern
ReplaceAll(s, ch, by) ==
    IF s = <<>> THEN <<>>
    ELSE (IF Head(s) = ch THEN by ELSE <<Head(s)>>) \o ReplaceAll(Tail(s), ch, by)

\* the rejected class without its control characters
InvalidChars_NoControls == {":", "*", "?", "\"", "<", ">", "|"}

\* the class [\x00-\x1F\x7F:*?"<>|]; the control characters other than
\* tab, line feed and carriage return are written U+00xx
InvalidChars ==
    {"U+0000", "U+0001", "U+001F", "U+007F", "\t", "\n", "\r",
     ":", "*", "?", "\"", "<", ">", "|"}

\* safeDirName comparing the trimmed input itself, not its lower case, with
\* the reserved names
safeDirNameThrows_CaseSensitive(input) ==
    LET trimmed == Trim(input)
    IN  IF trimmed = <<>> THEN "none"
        ELSE IF trimmed \in RESERVED_NAMES THEN "reserved"
        ELSE IF \E i \in 1..Len(trimmed) : trimmed[i] \in InvalidChars THEN "invalid"
        ELSE "none"

\* which Error safeDirName(input) throws: "reserved", "invalid" or "none"
safeDirNameThrows(input) ==
    LET trimmed == Trim(input)
    IN  IF trimmed = <<>> THEN "none"
        ELSE IF ToLowerCase(trimmed) \in RESERVED_NAMES THEN "reserved"
        ELSE IF \E i \in 1..Len(trimmed) : trimmed[i] \in InvalidChars THEN "invalid"
        ELSE "none"

\* safeDirName writing one "_" for a separator
safeDirName_SingleUnderscore(input) ==
    ReplaceAll(ReplaceAll(Trim(input), "/", <<"_">>), "\\", <<"_">>)

\* safeDirName returning the trimmed input with its separators kept
safeDirName_SeparatorsKept(input) == Trim(input)

\* safeDirName replacing "/" only
safeDirName_BackslashKept(input) ==
    LET trimmed == Trim(input)
    IN  IF trimmed = <<>> THEN trimmed
        ELSE ReplaceAll(trimmed, "/", <<"_", "_">>)

\* safeDirName replacing the separators of the input as given, not trimmed
safeDirName_Untrimmed(input) ==
    ReplaceAll(ReplaceAll(input, "/", <<"_", "_">>), "\\", <<"_", "_">>)

\* the value safeDirName(input) returns when it does not throw
safeDirName(input) ==
    LET trimmed == Trim(input)
    IN  IF trimmed = <<>> THEN trimmed
        ELSE ReplaceAll(ReplaceAll(trimmed, "/", <<"_", "_">>), "\\", <<"_", "_">>)

\* the path traversal test without its empty-relative case
EscapesBase_EmptyAllowed(relative) ==
    \/ relative = DotDot
    \/ StartsWith(relative, DotDot \o <<Sep>>)
    \/ IsAbsolute(relative)

\* the path traversal test of install-safe-path.ts:66-71
EscapesBase(relative) ==
    \/ relative = <<>>
    \/ relative = DotDot
    \/ StartsWith(relative, DotDot \o <<Sep>>)
    \/ IsAbsolute(relative)

\* fs.existsSync(targetDir): follows symbolic links and answers false on
\* every error
ExistsSync(entry) == entry \in {"directory", "file", "symlink"}

\* the try block with a catch that rejects
SymlinkCheck_CatchRejects(entry, lstatFails) ==
    IF ExistsSync(entry)
    THEN IF lstatFails THEN "symlink"
         ELSE IF entry = "symlink" THEN "symlink" ELSE "pass"
    ELSE "pass"

\* the try block of install-safe-path.ts:76-89, given what is at targetDir
\* and whether lstatSync throws: "symlink" when it returns the rejection,
\* "pass" when control reaches the final return (the catch swallows a throw)
SymlinkCheck(entry, lstatFails) ==
    IF ExistsSync(entry)
    THEN IF lstatFails THEN "pass"
         ELSE IF entry = "symlink" THEN "symlink" ELSE "pass"
    ELSE "pass"

\* the filesystem calls the try block makes, in order
SymlinkCheckCalls(entry) ==
    IF ExistsSync(entry) THEN <<"existsSync", "lstatSync">> ELSE <<"existsSync">>

NoResult == [kind |-> "none", path |-> <<>>, error |-> "none"]

\* resolveSafeInstallDir without the test of the relative path
resolveSafeInstallDir_NoContainment(baseDir, id, entry, lstatFails) ==
    IF safeDirNameThrows(id) # "none"
    THEN [kind |-> "threw", path |-> <<>>, error |-> safeDirNameThrows(id)]
    ELSE IF SymlinkCheck(entry, lstatFails) = "symlink"
    THEN [kind |-> "rejected", path |-> <<>>, error |-> "symlink"]
    ELSE [kind |-> "ok", path |-> Join(baseDir, safeDirName(id)),
          error |-> "none"]

\* resolveSafeInstallDir({baseDir, id, invalidNameMessage}): what the call
\* ends with.  kind "threw" is an Error escaping from safeDirName.
resolveSafeInstallDir(baseDir, id, entry, lstatFails) ==
    IF safeDirNameThrows(id) # "none"
    THEN [kind |-> "threw", path |-> <<>>, error |-> safeDirNameThrows(id)]
    ELSE LET targetDir      == Join(baseDir, safeDirName(id))
             resolvedBase   == Resolve(baseDir)
             resolvedTarget == Resolve(targetDir)
             relative       == Relative(resolvedBase, resolvedTarget)
         IN  IF EscapesBase(relative)
             THEN [kind |-> "rejected", path |-> <<>>,
                   error |-> "invalidNameMessage"]
             ELSE IF SymlinkCheck(entry, lstatFails) = "symlink"
             THEN [kind |-> "rejected", path |-> <<>>, error |-> "symlink"]
             ELSE [kind |-> "ok", path |-> targetDir, error |-> "none"]

\* the try block moved in front of safeDirName and the test of the relative
\* path
resolveFsCalls_Eager(outcome, entry) == SymlinkCheckCalls(entry)

\* the filesystem calls of a resolveSafeInstallDir call that ended with
\* outcome: none when it threw or returned at the test of the relative path,
\* else those of the try block
resolveFsCalls(outcome, entry) ==
    IF outcome.kind = "threw" \/ outcome.error = "invalidNameMessage" THEN <<>>
    ELSE SymlinkCheckCalls(entry)

(***************************************************************************)
(* Arguments and filesystem states of resolveSafeInstallDir               *)
(***************************************************************************)
IdAlphabet == {".", "/", "\\", "a", " "}

RECURSIVE StringsUpTo(_, _)
\* every string over alphabet of at most n code points
StringsUpTo(alphabet, n) ==
    IF n = 0 THEN {<<>>}
    ELSE LET shorter == StringsUpTo(alphabet, n - 1)
         IN  shorter \cup {Append(q, c) : q \in shorter, c \in alphabet}

TraversalId ==
    <<".", ".", "/", ".", ".", "/", "e", "t", "c", "/", "p", "a", "s", "s", "w", "d">>
MyPluginId == <<"m", "y", "-", "p", "l", "u", "g", "i", "n">>

NamedIds ==
    { TraversalId, MyPluginId,
      <<"a", "/", "b">>, <<"a", "\\", "b">>, <<"a", "_", "_", "b">>,
      <<".", ".", "\\", ".", ".", "\\", "x">>,
      <<"@", "s", "/", "p", "k", "g">>,
      <<"E", "T", "C">>, <<" ", ".", "G", "i", "t", " ">>,
      <<"n","o","d","e","_","m","o","d","u","l","e","s">>,
      <<"a", "U+0000", "b">>, <<"a", "\t", "b">> }

\* every reserved name, and some in other case or padded with blanks
ReservedIds ==
    {<<".">>, <<".", ".">>,
      <<"n", "o", "d", "e", "_", "m", "o", "d", "u", "l", "e", "s">>,
      <<".", "g", "i", "t">>, <<".", "e", "n", "v">>,
      <<"s", "y", "s", "t", "e", "m">>, <<"r", "o", "o", "t">>,
      <<"a", "d", "m", "i", "n">>, <<"c", "o", "n", "f", "i", "g">>,
      <<"e", "t", "c">>, <<"b", "i", "n">>, <<"s", "b", "i", "n">>,
      <<"b", "o", "o", "t">>, <<"d", "e", "v">>, <<"p", "r", "o", "c">>,
      <<"s", "y", "s">>,
      <<"N", "o", "d", "e", "_", "M", "o", "d", "u", "l", "e", "s">>,
      <<".", "E", "N", "V">>, <<" ", "S", "Y", "S", " ">>,
      <<"R", "o", "o", "t">>, <<".", ".", " ", " ">>, <<" ", ".">>,
      <<"P", "r", "o", "c">>, <<"s", "B", "i", "n">> }

\* identifiers holding one character of the rejected class, and two whose
\* only such character is trimmed away
InvalidCharIds ==
    {<<"a", c, "b">> : c \in {"U+0000", "U+0001", "U+001F", "U+007F", "\t",
                              "\n", "\r", ":", "*", "?", "\"", "<", ">", "|"}}
    \cup {<<" ", "a", "|", " ">>, <<"a", "\t">>, <<"\n", "a">>, <<":">>,
          <<"a", "/", ":">>, <<":", "\\", ".", ".">>, <<".", ".", "/", "?">>}

InstallIds ==
    StringsUpTo(IdAlphabet, MaxIdLen) \cup NamedIds \cup ReservedIds
    \cup InvalidCharIds

BaseDirs ==
    { <<"/", "s", "r", "v", "/", "p">>,
      <<"/", "s", "r", "v", "/", "p", "/">>,
      <<"/", "s", "r", "v", "/", ".", ".", "/", "p">>,
      <<"p">>,
      <<".", ".", "/", "p">>,
      <<"/">>,
      <<>> }

\* what the filesystem holds at targetDir: nothing, a directory, a file, a
\* symbolic link to something that exists, a symbolic link whose target is
\* missing, or an entry below a directory that cannot be searched
FsEntries == {"absent", "directory", "file", "symlink", "dangling_symlink",
              "unsearchable"}

\* the directories of the filesystem that are symbolic links, each with the
\* segments of the directory it points to: none, or /srv -> /mnt/x
NoLinks == <<>>
SrvLinked == [d \in {<< <<"s", "r", "v">> >>} |-> << <<"m", "n", "t">>, <<"x">> >>]
LinkTables == {NoLinks, SrvLinked}

InitInstall ==
    /\ params \in [baseDir : BaseDirs, id : InstallIds]
    /\ fsTarget \in FsEntries
    /\ lstatThrows \in BOOLEAN
    /\ dirLinks \in LinkTables
    /\ result = NoResult
    /\ fsCalls = <<>>
    \* startTelegramWebhook is not called
    /\ opts = [secretIsString |-> FALSE, secret |-> <<>>]
    /\ pc = "idle"
    /\ secret = <<>>
    /\ error = "none"
    /\ botCreated = FALSE
    /\ handlerSecretToken = <<>>
    /\ heartbeatStarted = FALSE
    /\ setWebhookCalls = <<>>
    /\ listening = FALSE
    \* no AuthRateLimiter is in use
    /\ limiterConfig = [maxAttempts |-> 1, windowMs |-> 1, lockoutMs |-> 1,
                        exemptLoopback |-> TRUE]
    /\ now = 0
    /\ attempts = <<>>
    /\ inflight = <<>>
    /\ lastDecision = [op |-> "none"]
    /\ serialAttempts = <<>>
    \* fetchWithSsrfGuard is not called
    /\ fetchPolicy = [allowPrivateIPs |-> FALSE, allowLoopback |-> FALSE,
                      maxRedirects |-> 0]
    /\ fetchPc = "off"
    /\ currentUrl = ""
    /\ nextUrl = ""
    /\ redirectCount = 0
    /\ fetchOutcome = "none"
    /\ requestsIssued = <<>>
    \* no pair of identifiers is resolved
    /\ pairParams = [baseDir |-> <<>>, idA |-> <<>>, idB |-> <<>>]
    /\ pairResults = <<[kind |-> "idle", path |-> <<>>, error |-> "none"]>>
    \* opts.abortSignal is not given
    /\ abortSignal = "none"
    /\ shutdownRegistered = FALSE
    /\ serverClosed = FALSE
    /\ botStopped = FALSE
    \* the server receives no request
    /\ webhookPaths = [path |-> "", healthPath |-> ""]
    /\ req = [url |-> "", method |-> ""]
    /\ reqPc = "off"
    /\ guard = [installed |-> FALSE, trippedAtInstall |-> FALSE, tripped |-> FALSE, disposed |-> 0]
    /\ headersSent = FALSE
    /\ events = <<>>
    \* no WebSocket upgrade is received
    /\ originHeader = [present |-> FALSE, value |-> <<>>]
    /\ hostHeader = [present |-> FALSE, value |-> <<>>]
    /\ upgrade = "off"
    \* foldMarkerText is not called
    /\ markerText = <<>>
    /\ folded = [done |-> TRUE, text |-> <<>>]

\* one call of resolveSafeInstallDir
ResolveSafeInstallDir ==
    /\ result.kind = "none"
    /\ result' = resolveSafeInstallDir(params.baseDir, params.id, fsTarget,
                                       lstatThrows)
    /\ fsCalls' = resolveFsCalls(result', fsTarget)
    /\ UNCHANGED <<params, fsTarget, lstatThrows, dirLinks>>
    /\ UNCHANGED notInstall

NextInstall == ResolveSafeInstallDir

(***************************************************************************)
(* Two identifiers resolved under one baseDir                              *)
(***************************************************************************)
PairAlphabet == {"a", "/", "\\"}

\* identifiers with separators, with underscores, in two cases and padded
PairIds ==
    StringsUpTo(PairAlphabet, MaxIdLen)
    \cup { <<"_">>, <<"_", "_">>, <<"_", "_", "_">>, <<"_", "/">>,
           <<"a", "_", "_", "b">>, <<"a", "/", "b">>, <<"a", "\\", "b">>,
           <<"a", "_", "b">>, <<"A">>, <<" ", "a">>, <<"a", " ">>,
           <<"a", " ", "a">>, <<"a", ".">>, <<".", "a">>, <<".", ".">>,
           <<"a", "_", "_", "_", "_", "b">>, <<"a", "/", "/", "b">>,
           <<"a", "\\", "_", "_", "b">> }

PairBaseDirs == { <<"/", "s", "r", "v", "/", "p">>, <<"p">> }

InitInstallPair ==
    /\ pairParams \in [baseDir : PairBaseDirs, idA : PairIds, idB : PairIds]
    /\ pairResults = <<>>
    \* startTelegramWebhook is not called
    /\ opts = [secretIsString |-> FALSE, secret |-> <<>>]
    /\ pc = "idle"
    /\ secret = <<>>
    /\ error = "none"
    /\ botCreated = FALSE
    /\ handlerSecretToken = <<>>
    /\ heartbeatStarted = FALSE
    /\ setWebhookCalls = <<>>
    /\ listening = FALSE
    \* resolveSafeInstallDir is not called
    /\ params = [baseDir |-> <<>>, id |-> <<>>]
    /\ fsTarget = "absent"
    /\ lstatThrows = FALSE
    /\ dirLinks = <<>>
    /\ result = [kind |-> "idle", path |-> <<>>, error |-> "none"]
    /\ fsCalls = <<>>
    \* no AuthRateLimiter is in use
    /\ limiterConfig = [maxAttempts |-> 1, windowMs |-> 1, lockoutMs |-> 1,
                        exemptLoopback |-> TRUE]
    /\ now = 0
    /\ attempts = <<>>
    /\ inflight = <<>>
    /\ lastDecision = [op |-> "none"]
    /\ serialAttempts = <<>>
    \* fetchWithSsrfGuard is not called
    /\ fetchPolicy = [allowPrivateIPs |-> FALSE, allowLoopback |-> FALSE,
                      maxRedirects |-> 0]
    /\ fetchPc = "off"
    /\ currentUrl = ""
    /\ nextUrl = ""
    /\ redirectCount = 0
    /\ fetchOutcome = "none"
    /\ requestsIssued = <<>>
    \* opts.abortSignal is not given
    /\ abortSignal = "none"
    /\ shutdownRegistered = FALSE
    /\ serverClosed = FALSE
    /\ botStopped = FALSE
    \* the server receives no request
    /\ webhookPaths = [path |-> "", healthPath |-> ""]
    /\ req = [url |-> "", method |-> ""]
    /\ reqPc = "off"
    /\ guard = [installed |-> FALSE, trippedAtInstall |-> FALSE, tripped |-> FALSE, disposed |-> 0]
    /\ headersSent = FALSE
    /\ events = <<>>
    \* no WebSocket upgrade is received
    /\ originHeader = [present |-> FALSE, value |-> <<>>]
    /\ hostHeader = [present |-> FALSE, value |-> <<>>]
    /\ upgrade = "off"
    \* foldMarkerText is not called
    /\ markerText = <<>>
    /\ folded = [done |-> TRUE, text |-> <<>>]

\* resolveSafeInstallDir called for idA and then for idB, with nothing at
\* either candidate path
ResolveBoth ==
    /\ pairResults = <<>>
    /\ pairResults' =
          << resolveSafeInstallDir(pairParams.baseDir, pairParams.idA,
                                   "absent", FALSE),
             resolveSafeInstallDir(pairParams.baseDir, pairParams.idB,
                                   "absent", FALSE) >>
    /\ UNCHANGED pairParams
    /\ UNCHANGED notPair

NextInstallPair == ResolveBoth

(***************************************************************************)
(* new URL(...) for the URLs of HTTP headers: scheme, authority, host       *)
(***************************************************************************)
Digits == <<"0", "1", "2", "3", "4", "5", "6", "7", "8", "9">>

Range(q) == {q[i] : i \in 1..Len(q)}

\* first position of a character of set in s, Len(s) + 1 when there is none
FirstOf(s, set) ==
    IF \E i \in 1..Len(s) : s[i] \in set
    THEN CHOOSE i \in 1..Len(s) :
             s[i] \in set /\ \A j \in 1..(i - 1) : s[j] \notin set
    ELSE Len(s) + 1

\* last position of ch in s, 0 when there is none
LastIndexOf(s, ch) ==
    IF \E i \in 1..Len(s) : s[i] = ch
    THEN CHOOSE i \in 1..Len(s) :
             s[i] = ch /\ \A j \in (i + 1)..Len(s) : s[j] # ch
    ELSE 0

RECURSIVE DigitsValue(_)
\* the number a string of decimal digits denotes
DigitsValue(d) ==
    IF d = <<>> THEN 0
    ELSE 10 * DigitsValue(Front(d))
         + (CHOOSE v \in 0..9 : Digits[v + 1] = Last(d))

RECURSIVE NumberDigits(_)
\* the decimal digits of a number
NumberDigits(n) ==
    IF n < 10 THEN <<Digits[n + 1]>>
    ELSE Append(NumberDigits(n \div 10), Digits[(n % 10) + 1])

UrlFailure == [ok |-> FALSE, host |-> <<>>, hostname |-> <<>>]

SpecialSchemes ==
    { <<"h","t","t","p">>, <<"h","t","t","p","s">>, <<"w","s">>,
      <<"w","s","s">> }

\* the default port of a special scheme
DefaultPort(scheme) ==
    IF scheme \in {<<"h","t","t","p">>, <<"w","s">>} THEN 80 ELSE 443

\* code points a host may not hold
ForbiddenHostChars ==
    {" ", "\t", "\n", "\r", "#", "/", ":", "<", ">", "?", "@", "[", "\\", "]",
     "^", "|", "%"}

\* the string without its leading "/" and "\"
RECURSIVE SkipSlashes(_)
SkipSlashes(s) ==
    IF s # <<>> /\ Head(s) \in {"/", "\\"} THEN SkipSlashes(Tail(s)) ELSE s

\* host and port of an authority: user info dropped, host in lower case, a
\* port of digits written without leading zeros and left out when it is the
\* scheme's default
ParseAuthority(scheme, rest) ==
    LET auth     == SubSeq(rest, 1, FirstOf(rest, {"/", "\\", "?", "#"}) - 1)
        hostport == SubSeq(auth, LastIndexOf(auth, "@") + 1, Len(auth))
        bracket  == hostport # <<>> /\ hostport[1] = "["
        close    == FirstOf(hostport, {"]"})
        colon    == IF bracket
                    THEN (IF close < Len(hostport) THEN close + 1 ELSE 0)
                    ELSE LastIndexOf(hostport, ":")
        name     == ToLowerCase(IF colon = 0 THEN hostport
                                ELSE SubSeq(hostport, 1, colon - 1))
        port     == IF colon = 0 THEN <<>>
                    ELSE SubSeq(hostport, colon + 1, Len(hostport))
        inner    == IF bracket THEN SubSeq(name, 2, Len(name) - 1) ELSE name
    IN  IF \/ name = <<>>
           \/ bracket /\ (close > Len(hostport) \/ inner = <<>>
                           \/ (colon # 0 /\ hostport[colon] # ":"))
           \/ bracket /\ \E i \in 1..Len(inner) :
                  inner[i] \notin Range(Digits) \cup {":", "a", "b", "c", "d",
                                                      "e", "f"}
           \/ ~bracket /\ \E i \in 1..Len(name) :
                  name[i] \in ForbiddenHostChars
           \/ \E i \in 1..Len(port) : port[i] \notin Range(Digits)
           \/ Len(port) > 5
        THEN UrlFailure
        ELSE [ok |-> TRUE, hostname |-> name,
              host |-> IF port = <<>> \/ DigitsValue(port) = DefaultPort(scheme)
                       THEN name
                       ELSE name \o <<":">> \o NumberDigits(DigitsValue(port))]

\* new URL(s) for an absolute URL of a special scheme: its host and hostname,
\* or the failure that makes the constructor throw a TypeError
ParseUrl(s) ==
    LET t      == Trim(s)
        colon  == FirstOf(t, {":"})
        scheme == ToLowerCase(SubSeq(t, 1, colon - 1))
    IN  IF colon > Len(t) \/ scheme \notin SpecialSchemes THEN UrlFailure
        ELSE ParseAuthority(scheme, SkipSlashes(SubSeq(t, colon + 1, Len(t))))

(***************************************************************************)
(* The Origin check of the WebSocket upgrade (server-http.ts, as quoted in  *)
(* the security notes)                                                     *)
(***************************************************************************)
\* req.headers.origin: absent, or one of these strings
OriginHeaders ==
    { [present |-> FALSE, value |-> <<>>],
      \* the empty string
      [present |-> TRUE, value |-> <<>>],
      \* 'https://evil.example'
      [present |-> TRUE, value |-> <<"h","t","t","p","s",":","/","/","e","v","i","l",".","e","x","a","m","p","l","e">>],
      \* 'https://evil.example:8787'
      [present |-> TRUE, value |-> <<"h","t","t","p","s",":","/","/","e","v","i","l",".","e","x","a","m","p","l","e",":","8","7","8","7">>],
      \* 'https://gateway.local:8787'
      [present |-> TRUE, value |-> <<"h","t","t","p","s",":","/","/","g","a","t","e","w","a","y",".","l","o","c","a","l",":","8","7","8","7">>],
      \* 'http://GATEWAY.local:8787'
      [present |-> TRUE, value |-> <<"h","t","t","p",":","/","/","G","A","T","E","W","A","Y",".","l","o","c","a","l",":","8","7","8","7">>],
      \* 'https://gateway.local'
      [present |-> TRUE, value |-> <<"h","t","t","p","s",":","/","/","g","a","t","e","w","a","y",".","l","o","c","a","l">>],
      \* 'https://gateway.local:443'
      [present |-> TRUE, value |-> <<"h","t","t","p","s",":","/","/","g","a","t","e","w","a","y",".","l","o","c","a","l",":","4","4","3">>],
      \* 'https://user@gateway.local:08787/x'
      [present |-> TRUE, value |-> <<"h","t","t","p","s",":","/","/","u","s","e","r","@","g","a","t","e","w","a","y",".","l","o","c","a","l",":","0","8","7","8","7","/","x">>],
      \* 'http://localhost:3000'
      [present |-> TRUE, value |-> <<"h","t","t","p",":","/","/","l","o","c","a","l","h","o","s","t",":","3","0","0","0">>],
      \* 'http://127.0.0.1:5173'
      [present |-> TRUE, value |-> <<"h","t","t","p",":","/","/","1","2","7",".","0",".","0",".","1",":","5","1","7","3">>],
      \* 'http://[::1]:3000'
      [present |-> TRUE, value |-> <<"h","t","t","p",":","/","/","[",":",":","1","]",":","3","0","0","0">>],
      \* 'null'
      [present |-> TRUE, value |-> <<"n","u","l","l">>],
      \* 'not a url'
      [present |-> TRUE, value |-> <<"n","o","t"," ","a"," ","u","r","l">>],
      \* 'https://evil example'
      [present |-> TRUE, value |-> <<"h","t","t","p","s",":","/","/","e","v","i","l"," ","e","x","a","m","p","l","e">>],
      \* 'https://gateway.local:port'
      [present |-> TRUE, value |-> <<"h","t","t","p","s",":","/","/","g","a","t","e","w","a","y",".","l","o","c","a","l",":","p","o","r","t">>] }

\* req.headers.host: absent, or one of these strings
HostHeaders ==
    { [present |-> FALSE, value |-> <<>>],
      \* 'gateway.local:8787'
      [present |-> TRUE, value |-> <<"g","a","t","e","w","a","y",".","l","o","c","a","l",":","8","7","8","7">>],
      \* 'gateway.local'
      [present |-> TRUE, value |-> <<"g","a","t","e","w","a","y",".","l","o","c","a","l">>],
      \* 'gateway.local:443'
      [present |-> TRUE, value |-> <<"g","a","t","e","w","a","y",".","l","o","c","a","l",":","4","4","3">>],
      \* 'gateway.local:80'
      [present |-> TRUE, value |-> <<"g","a","t","e","w","a","y",".","l","o","c","a","l",":","8","0">>],
      \* 'evil.example'
      [present |-> TRUE, value |-> <<"e","v","i","l",".","e","x","a","m","p","l","e">>],
      \* 'gateway local'
      [present |-> TRUE, value |-> <<"g","a","t","e","w","a","y"," ","l","o","c","a","l">>],
      \* 'localhost:3000'
      [present |-> TRUE, value |-> <<"l","o","c","a","l","h","o","s","t",":","3","0","0","0">>] }

HttpPrefix == <<"h","t","t","p",":","/","/">>

\* isLoopbackAddress(hostname)
isLoopbackAddress(hostname) ==
    hostname \in { <<"l","o","c","a","l","h","o","s","t">>,
                    <<"1","2","7",".","0",".","0",".","1">>,
                    <<"[",":",":","1","]">> }

\* the check of the upgrade listener: "accepted" when control leaves the if
\* statement, "rejected" when 403 is written and the socket destroyed,
\* "threw" when new URL throws
validateOrigin(origin, host) ==
    IF origin.present /\ origin.value # <<>> /\ host.present
       /\ host.value # <<>>
    THEN LET originUrl == ParseUrl(origin.value)
             hostUrl   == ParseUrl(HttpPrefix \o host.value)
         IN  IF ~originUrl.ok \/ ~hostUrl.ok THEN "threw"
             ELSE IF originUrl.host # hostUrl.host
                     /\ ~isLoopbackAddress(originUrl.hostname)
             THEN "rejected"
             ELSE "accepted"
    ELSE "accepted"

InitOrigin ==
    /\ originHeader \in OriginHeaders
    /\ hostHeader \in HostHeaders
    /\ upgrade = "none"
    \* startTelegramWebhook is not called
    /\ opts = [secretIsString |-> FALSE, secret |-> <<>>]
    /\ pc = "idle"
    /\ secret = <<>>
    /\ error = "none"
    /\ botCreated = FALSE
    /\ handlerSecretToken = <<>>
    /\ heartbeatStarted = FALSE
    /\ setWebhookCalls = <<>>
    /\ listening = FALSE
    \* resolveSafeInstallDir is not called
    /\ params = [baseDir |-> <<>>, id |-> <<>>]
    /\ fsTarget = "absent"
    /\ lstatThrows = FALSE
    /\ dirLinks = <<>>
    /\ result = [kind |-> "idle", path |-> <<>>, error |-> "none"]
    /\ fsCalls = <<>>
    \* no AuthRateLimiter is in use
    /\ limiterConfig = [maxAttempts |-> 1, windowMs |-> 1, lockoutMs |-> 1,
                        exemptLoopback |-> TRUE]
    /\ now = 0
    /\ attempts = <<>>
    /\ inflight = <<>>
    /\ lastDecision = [op |-> "none"]
    /\ serialAttempts = <<>>
    \* fetchWithSsrfGuard is not called
    /\ fetchPolicy = [allowPrivateIPs |-> FALSE, allowLoopback |-> FALSE,
                      maxRedirects |-> 0]
    /\ fetchPc = "off"
    /\ currentUrl = ""
    /\ nextUrl = ""
    /\ redirectCount = 0
    /\ fetchOutcome = "none"
    /\ requestsIssued = <<>>
    \* no pair of identifiers is resolved
    /\ pairParams = [baseDir |-> <<>>, idA |-> <<>>, idB |-> <<>>]
    /\ pairResults = <<[kind |-> "idle", path |-> <<>>, error |-> "none"]>>
    \* opts.abortSignal is not given
    /\ abortSignal = "none"
    /\ shutdownRegistered = FALSE
    /\ serverClosed = FALSE
    /\ botStopped = FALSE
    \* the server receives no request
    /\ webhookPaths = [path |-> "", healthPath |-> ""]
    /\ req = [url |-> "", method |-> ""]
    /\ reqPc = "off"
    /\ guard = [installed |-> FALSE, trippedAtInstall |-> FALSE, tripped |-> FALSE, disposed |-> 0]
    /\ headersSent = FALSE
    /\ events = <<>>
    \* foldMarkerText is not called
    /\ markerText = <<>>
    /\ folded = [done |-> TRUE, text |-> <<>>]

\* the upgrade listener runs its Origin check
ValidateOrigin ==
    /\ upgrade = "none"
    /\ upgrade' = validateOrigin(originHeader, hostHeader)
    /\ UNCHANGED <<originHeader, hostHeader>>
    /\ UNCHANGED notOrigin

NextOrigin == ValidateOrigin

(***************************************************************************)
(* foldMarkerText (external-content.ts, as quoted in the security notes)   *)
(***************************************************************************)
\* canonical decompositions: E acute, A ring, Cyrillic IO, hiragana GA
Decompositions ==
    [c \in {"U+00C9", "U+00C5", "U+0401", "U+304C"} |->
        CASE c = "U+00C9" -> <<"E", "U+0301">>
          [] c = "U+00C5" -> <<"A", "U+030A">>
          [] c = "U+0401" -> <<"U+0415", "U+0308">>
          [] c = "U+304C" -> <<"U+304B", "U+3099">>]

RECURSIVE NFD(_)
\* String.prototype.normalize("NFD")
NFD(str) ==
    IF str = <<>> THEN <<>>
    ELSE (IF Head(str) \in DOMAIN Decompositions
          THEN Decompositions[Head(str)] ELSE <<Head(str)>>) \o NFD(Tail(str))

RECURSIVE NFC(_)
\* String.prototype.normalize("NFC") of a decomposed string: a base and the
\* mark after it are composed when a character decomposes into the two
NFC(str) ==
    IF Len(str) < 2 THEN str
    ELSE IF \E c \in DOMAIN Decompositions :
                Decompositions[c] = <<str[1], str[2]>>
    THEN <<CHOOSE c \in DOMAIN Decompositions :
               Decompositions[c] = <<str[1], str[2]>> >>
         \o NFC(SubSeq(str, 3, Len(str)))
    ELSE <<Head(str)>> \o NFC(Tail(str))

\* the combining diacritical marks U+0300..U+036F that occur in the texts
CombiningMarks == {"U+0301", "U+0308", "U+030A"}

\* U+200B, U+200C, U+200D, U+FEFF
ZeroWidthChars == {"U+200B", "U+200C", "U+200D", "U+FEFF"}

\* String.prototype.replace(/[...]/g, "")
Remove(str, set) == SelectSeq(str, LAMBDA c : c \notin set)

\* const additionalMappings: Cyrillic A, VE and IE
additionalMappings ==
    [c \in {"U+0410", "U+0412", "U+0415"} |->
        CASE c = "U+0410" -> "A"
          [] c = "U+0412" -> "B"
          [] c = "U+0415" -> "E"]

\* foldMarkerText(input): NFD, the combining marks removed, the zero-width
\* characters removed, NFC.  additionalMappings is declared between the two
\* removals and applied to nothing.
foldMarkerText(input) ==
    NFC(Remove(Remove(NFD(input), CombiningMarks), ZeroWidthChars))

MarkerAlphabet ==
    {"A", "x", "U+0410", "U+0415", "U+200B", "U+FEFF", "U+00C9", "U+0301",
     "U+304B", "U+3099"}

\* texts over the alphabet, and some with the other characters
MarkerTexts ==
    StringsUpTo(MarkerAlphabet, MaxTextLen)
    \cup { <<"E", "X", "T", "E", "R", "N", "A", "L">>,
           <<"U+0415", "X", "T", "U+200B", "E", "R", "N", "U+0410", "L">>,
           <<"U+0412", "U+200C", "U+200D">>, <<"B">>, <<"U+0401">>,
           <<"U+00C5", "U+0412">>, <<"U+304C">> }

InitMarker ==
    /\ markerText \in MarkerTexts
    /\ folded = [done |-> FALSE, text |-> <<>>]
    \* startTelegramWebhook is not called
    /\ opts = [secretIsString |-> FALSE, secret |-> <<>>]
    /\ pc = "idle"
    /\ secret = <<>>
    /\ error = "none"
    /\ botCreated = FALSE
    /\ handlerSecretToken = <<>>
    /\ heartbeatStarted = FALSE
    /\ setWebhookCalls = <<>>
    /\ listening = FALSE
    \* resolveSafeInstallDir is not called
    /\ params = [baseDir |-> <<>>, id |-> <<>>]
    /\ fsTarget = "absent"
    /\ lstatThrows = FALSE
    /\ dirLinks = <<>>
    /\ result = [kind |-> "idle", path |-> <<>>, error |-> "none"]
    /\ fsCalls = <<>>
    \* no AuthRateLimiter is in use
    /\ limiterConfig = [maxAttempts |-> 1, windowMs |-> 1, lockoutMs |-> 1,
                        exemptLoopback |-> TRUE]
    /\ now = 0
    /\ attempts = <<>>
    /\ inflight = <<>>
    /\ lastDecision = [op |-> "none"]
    /\ serialAttempts = <<>>
    \* fetchWithSsrfGuard is not called
    /\ fetchPolicy = [allowPrivateIPs |-> FALSE, allowLoopback |-> FALSE,
                      maxRedirects |-> 0]
    /\ fetchPc = "off"
    /\ currentUrl = ""
    /\ nextUrl = ""
    /\ redirectCount = 0
    /\ fetchOutcome = "none"
    /\ requestsIssued = <<>>
    \* no pair of identifiers is resolved
    /\ pairParams = [baseDir |-> <<>>, idA |-> <<>>, idB |-> <<>>]
    /\ pairResults = <<[kind |-> "idle", path |-> <<>>, error |-> "none"]>>
    \* opts.abortSignal is not given
    /\ abortSignal = "none"
    /\ shutdownRegistered = FALSE
    /\ serverClosed = FALSE
    /\ botStopped = FALSE
    \* the server receives no request
    /\ webhookPaths = [path |-> "", healthPath |-> ""]
    /\ req = [url |-> "", method |-> ""]
    /\ reqPc = "off"
    /\ guard = [installed |-> FALSE, trippedAtInstall |-> FALSE, tripped |-> FALSE, disposed |-> 0]
    /\ headersSent = FALSE
    /\ events = <<>>
    \* no WebSocket upgrade is received
    /\ originHeader = [present |-> FALSE, value |-> <<>>]
    /\ hostHeader = [present |-> FALSE, value |-> <<>>]
    /\ upgrade = "off"

\* one call of foldMarkerText
FoldMarkerText ==
    /\ ~folded.done
    /\ folded' = [done |-> TRUE, text |-> foldMarkerText(markerText)]
    /\ UNCHANGED markerText
    /\ UNCHANGED notMarker

NextMarker == FoldMarkerText

(***************************************************************************)
(* AuthRateLimiter.  The sources hold its configuration only, not         *)
(* createAuthRateLimiter; the limiter follows section 4.1 of the           *)
(* specification, with the per-key lock of its section 5.                  *)
(***************************************************************************)
\* caller identities: the local CLI and a remote address
Keys == {"127.0.0.1", "203.0.113.7"}

\* request contexts that call the limiter: one, or three at the same time
OneContext == {"r1"}
ThreeContexts == {"r1", "r2", "r3"}

\* the key is a loopback address
isLoopback(key) == key \in {"127.0.0.1", "::1"}

LimiterConfigs ==
    [maxAttempts : {MaxAttempts}, windowMs : {WindowMs},
     lockoutMs : {ShortLockoutMs, LockoutMs}, exemptLoopback : BOOLEAN]

Idle == [at |-> "idle"]
NoDecision == [op |-> "none"]

\* a loopback key of a limiter that never exempts
IsExempt_Never(cfg, key) == FALSE

\* the key bypasses the limiter
IsExempt(cfg, key) == cfg.exemptLoopback /\ isLoopback(key)

\* the key has a record with lockedUntil still ahead
IsLockedAt(map, key, t) ==
    /\ key \in DOMAIN map
    /\ "lockedUntil" \in DOMAIN map[key]
    /\ t < map[key].lockedUntil

\* a lockout that never counts as passed
LockExpiredAt_Never(map, key, t) == FALSE

\* the key has a record whose lockedUntil has passed
LockExpiredAt(map, key, t) ==
    /\ key \in DOMAIN map
    /\ "lockedUntil" \in DOMAIN map[key]
    /\ t >= map[key].lockedUntil

\* the map without the record of key, and with rec as the record of key
Without(map, key) == [k \in DOMAIN map \ {key} |-> map[k]]
With(map, key, rec) == [k \in DOMAIN map \cup {key} |->
                           IF k = key THEN rec ELSE map[k]]

\* the part of the map that is about key
OnlyKey(map, key) == [k \in DOMAIN map \cap {key} |-> map[k]]

\* count and windowStart after one more failed attempt: a first record, a
\* new window when the old one has run out, else one more in the window
CountFailure(map, cfg, key, t) ==
    LET live == IF LockExpiredAt(map, key, t) THEN Without(map, key) ELSE map
    IN  IF key \notin DOMAIN live \/ t - live[key].windowStart >= cfg.windowMs
        THEN [count |-> 1, windowStart |-> t]
        ELSE [count |-> live[key].count + 1,
              windowStart |-> live[key].windowStart]

\* recordAttempt clearing the record on success before it looks at the lock
recordAttemptMap_SuccessFirst(map, cfg, key, success, t) ==
    IF IsExempt(cfg, key) THEN map
    ELSE IF success THEN Without(map, key)
    ELSE IF IsLockedAt(map, key, t) THEN map
    ELSE LET c == CountFailure(map, cfg, key, t)
         IN  IF c.count > cfg.maxAttempts
             THEN With(map, key, [count |-> c.count, windowStart |-> c.windowStart,
                                  lockedUntil |-> t + cfg.lockoutMs])
             ELSE With(map, key, c)

\* the map after recordAttempt(key, success) at time t
recordAttemptMap(map, cfg, key, success, t) ==
    IF IsExempt(cfg, key) THEN map
    ELSE IF IsLockedAt(map, key, t) THEN map
    ELSE IF success THEN Without(map, key)
    ELSE LET c == CountFailure(map, cfg, key, t)
         IN  IF c.count > cfg.maxAttempts
             THEN With(map, key, [count |-> c.count, windowStart |-> c.windowStart,
                                  lockedUntil |-> t + cfg.lockoutMs])
             ELSE With(map, key, c)

\* the Decision of recordAttempt(key, success) at time t
recordAttempt(map, cfg, key, success, t) ==
    IF IsExempt(cfg, key) THEN [allowed |-> TRUE]
    ELSE IF IsLockedAt(map, key, t)
    THEN [allowed |-> FALSE, retryAfter |-> map[key].lockedUntil - t]
    ELSE IF success THEN [allowed |-> TRUE]
    ELSE IF CountFailure(map, cfg, key, t).count > cfg.maxAttempts
    THEN [allowed |-> FALSE, retryAfter |-> cfg.lockoutMs]
    ELSE [allowed |-> TRUE]

\* the Decision of check(key) at time t; the map is left as it is
check(map, cfg, key, t) ==
    IF IsExempt(cfg, key) THEN [allowed |-> TRUE]
    ELSE IF IsLockedAt(map, key, t)
    THEN [allowed |-> FALSE, retryAfter |-> map[key].lockedUntil - t]
    ELSE [allowed |-> TRUE]

InitRateLimiter ==
    /\ limiterConfig \in LimiterConfigs
    /\ now = 0
    /\ attempts = <<>>
    /\ inflight \in {[p \in OneContext |-> Idle]}
    /\ lastDecision = NoDecision
    /\ serialAttempts = <<>>
    \* startTelegramWebhook is not called
    /\ opts = [secretIsString |-> FALSE, secret |-> <<>>]
    /\ pc = "idle"
    /\ secret = <<>>
    /\ error = "none"
    /\ botCreated = FALSE
    /\ handlerSecretToken = <<>>
    /\ heartbeatStarted = FALSE
    /\ setWebhookCalls = <<>>
    /\ listening = FALSE
    \* resolveSafeInstallDir is not called
    /\ params = [baseDir |-> <<>>, id |-> <<>>]
    /\ fsTarget = "absent"
    /\ lstatThrows = FALSE
    /\ dirLinks = <<>>
    /\ result = [kind |-> "idle", path |-> <<>>, error |-> "none"]
    /\ fsCalls = <<>>
    \* fetchWithSsrfGuard is not called
    /\ fetchPolicy = [allowPrivateIPs |-> FALSE, allowLoopback |-> FALSE,
                      maxRedirects |-> 0]
    /\ fetchPc = "off"
    /\ currentUrl = ""
    /\ nextUrl = ""
    /\ redirectCount = 0
    /\ fetchOutcome = "none"
    /\ requestsIssued = <<>>
    \* no pair of identifiers is resolved
    /\ pairParams = [baseDir |-> <<>>, idA |-> <<>>, idB |-> <<>>]
    /\ pairResults = <<[kind |-> "idle", path |-> <<>>, error |-> "none"]>>
    \* opts.abortSignal is not given
    /\ abortSignal = "none"
    /\ shutdownRegistered = FALSE
    /\ serverClosed = FALSE
    /\ botStopped = FALSE
    \* the server receives no request
    /\ webhookPaths = [path |-> "", healthPath |-> ""]
    /\ req = [url |-> "", method |-> ""]
    /\ reqPc = "off"
    /\ guard = [installed |-> FALSE, trippedAtInstall |-> FALSE, tripped |-> FALSE, disposed |-> 0]
    /\ headersSent = FALSE
    /\ events = <<>>
    \* no WebSocket upgrade is received
    /\ originHeader = [present |-> FALSE, value |-> <<>>]
    /\ hostHeader = [present |-> FALSE, value |-> <<>>]
    /\ upgrade = "off"
    \* foldMarkerText is not called
    /\ markerText = <<>>
    /\ folded = [done |-> TRUE, text |-> <<>>]

\* three request contexts call the limiter within one instant
InitRateLimiterBurst ==
    /\ limiterConfig \in LimiterConfigs
    /\ now = 0
    /\ attempts = <<>>
    /\ inflight \in {[p \in ThreeContexts |-> Idle]}
    /\ lastDecision = NoDecision
    /\ serialAttempts = <<>>
    \* startTelegramWebhook is not called
    /\ opts = [secretIsString |-> FALSE, secret |-> <<>>]
    /\ pc = "idle"
    /\ secret = <<>>
    /\ error = "none"
    /\ botCreated = FALSE
    /\ handlerSecretToken = <<>>
    /\ heartbeatStarted = FALSE
    /\ setWebhookCalls = <<>>
    /\ listening = FALSE
    \* resolveSafeInstallDir is not called
    /\ params = [baseDir |-> <<>>, id |-> <<>>]
    /\ fsTarget = "absent"
    /\ lstatThrows = FALSE
    /\ dirLinks = <<>>
    /\ result = [kind |-> "idle", path |-> <<>>, error |-> "none"]
    /\ fsCalls = <<>>
    \* fetchWithSsrfGuard is not called
    /\ fetchPolicy = [allowPrivateIPs |-> FALSE, allowLoopback |-> FALSE,
                      maxRedirects |-> 0]
    /\ fetchPc = "off"
    /\ currentUrl = ""
    /\ nextUrl = ""
    /\ redirectCount = 0
    /\ fetchOutcome = "none"
    /\ requestsIssued = <<>>
    \* no pair of identifiers is resolved
    /\ pairParams = [baseDir |-> <<>>, idA |-> <<>>, idB |-> <<>>]
    /\ pairResults = <<[kind |-> "idle", path |-> <<>>, error |-> "none"]>>
    \* opts.abortSignal is not given
    /\ abortSignal = "none"
    /\ shutdownRegistered = FALSE
    /\ serverClosed = FALSE
    /\ botStopped = FALSE
    \* the server receives no request
    /\ webhookPaths = [path |-> "", healthPath |-> ""]
    /\ req = [url |-> "", method |-> ""]
    /\ reqPc = "off"
    /\ guard = [installed |-> FALSE, trippedAtInstall |-> FALSE, tripped |-> FALSE, disposed |-> 0]
    /\ headersSent = FALSE
    /\ events = <<>>
    \* no WebSocket upgrade is received
    /\ originHeader = [present |-> FALSE, value |-> <<>>]
    /\ hostHeader = [present |-> FALSE, value |-> <<>>]
    /\ upgrade = "off"
    \* foldMarkerText is not called
    /\ markerText = <<>>
    /\ folded = [done |-> TRUE, text |-> <<>>]

\* a request context calls recordAttempt(key, success) and waits for the key
CallRecordAttempt(p, key, success) ==
    /\ inflight[p] = Idle
    /\ inflight' = [inflight EXCEPT
                       ![p] = [at |-> "waiting", key |-> key, success |-> success]]
    /\ UNCHANGED <<limiterConfig, now, attempts, lastDecision, serialAttempts>>
    /\ UNCHANGED notLimiter

\* another call holds the key of p's call
KeyHeld(p) ==
    \E q \in DOMAIN inflight \ {p} :
        inflight[q].at = "holding" /\ inflight[q].key = inflight[p].key

\* the call takes the key and reads its record without waiting for the key
AcquireKey_Unguarded(p) ==
    /\ inflight[p].at = "waiting"
    /\ inflight' = [inflight EXCEPT
                       ![p] = [at |-> "holding", key |-> inflight[p].key,
                               success |-> inflight[p].success,
                               seen |-> OnlyKey(attempts, inflight[p].key)]]
    /\ UNCHANGED <<limiterConfig, now, attempts, lastDecision, serialAttempts>>
    /\ UNCHANGED notLimiter

\* the call takes the key once no other call holds it, and reads the record
AcquireKey(p) ==
    /\ inflight[p].at = "waiting"
    /\ ~KeyHeld(p)
    /\ inflight' = [inflight EXCEPT
                       ![p] = [at |-> "holding", key |-> inflight[p].key,
                               success |-> inflight[p].success,
                               seen |-> OnlyKey(attempts, inflight[p].key)]]
    /\ UNCHANGED <<limiterConfig, now, attempts, lastDecision, serialAttempts>>
    /\ UNCHANGED notLimiter

\* the call writes the record, gives the key back and returns its Decision
CompleteRecordAttempt(p) ==
    /\ inflight[p].at = "holding"
    /\ LET call   == inflight[p]
           after  == recordAttemptMap(call.seen, limiterConfig, call.key,
                                      call.success, now)
       IN  /\ attempts' = IF call.key \in DOMAIN after
                          THEN With(attempts, call.key, after[call.key])
                          ELSE Without(attempts, call.key)
           /\ serialAttempts' = recordAttemptMap(serialAttempts, limiterConfig,
                                                 call.key, call.success, now)
           /\ lastDecision' =
                [op |-> "recordAttempt", key |-> call.key,
                 success |-> call.success, at |-> now, before |-> call.seen,
                 decision |-> recordAttempt(call.seen, limiterConfig, call.key,
                                            call.success, now),
                 overlapped |-> \E q \in DOMAIN inflight \ {p} :
                                   /\ inflight[q] # Idle
                                   /\ inflight[q].key = call.key]
    /\ inflight' = [inflight EXCEPT ![p] = Idle]
    /\ UNCHANGED <<limiterConfig, now>>
    /\ UNCHANGED notLimiter

\* a request context calls check(key)
Check(p, key) ==
    /\ inflight[p] = Idle
    /\ lastDecision' = [op |-> "check", key |-> key, success |-> FALSE,
                        at |-> now, before |-> OnlyKey(attempts, key),
                        decision |-> check(attempts, limiterConfig, key, now),
                        overlapped |-> FALSE]
    /\ UNCHANGED <<limiterConfig, now, attempts, inflight, serialAttempts>>
    /\ UNCHANGED notLimiter

\* a millisecond passes
Tick ==
    /\ inflight # <<>>
    /\ now < MaxNow
    /\ now' = now + 1
    /\ UNCHANGED <<limiterConfig, attempts, inflight, lastDecision,
                   serialAttempts>>
    /\ UNCHANGED notLimiter

NextRateLimiter ==
    \/ \E p \in DOMAIN inflight, key \in Keys, success \in BOOLEAN :
          CallRecordAttempt(p, key, success)
    \/ \E p \in DOMAIN inflight : AcquireKey(p)
    \/ \E p \in DOMAIN inflight : CompleteRecordAttempt(p)
    \/ \E p \in DOMAIN inflight, key \in Keys : Check(p, key)
    \/ Tick

\* the calls of the limiter while the clock stands still
NextRateLimiterBurst ==
    \/ \E p \in DOMAIN inflight, key \in Keys, success \in BOOLEAN :
          CallRecordAttempt(p, key, success)
    \/ \E p \in DOMAIN inflight : AcquireKey(p)
    \/ \E p \in DOMAIN inflight : CompleteRecordAttempt(p)
    \/ \E p \in DOMAIN inflight, key \in Keys : Check(p, key)

(***************************************************************************)
(* fetchWithSsrfGuard.  Of src/infra/net/fetch-guard.ts the sources hold   *)
(* the re-validation of a redirect target; the loop around it follows      *)
(* section 4.2 of the specification.                                       *)
(***************************************************************************)
\* hostnames, and what a lookup of each gives: a public address, an address
\* of a private range, a loopback address, or an error of the resolver
Hostnames == {"api.example.com", "cdn.example.com", "intranet.example.com",
              "localhost", "gone.example.com"}

HostKind(hostname) ==
    IF hostname \in {"api.example.com", "cdn.example.com"} THEN "public"
    ELSE IF hostname = "intranet.example.com" THEN "private"
    ELSE IF hostname = "localhost" THEN "loopback"
    ELSE "unresolvable"

FetchPolicies ==
    [allowPrivateIPs : BOOLEAN, allowLoopback : BOOLEAN,
     maxRedirects : 0..MaxRedirects]

\* how resolvePinnedHostnameWithPolicy(hostname, {lookupFn, policy}) ends:
\* "pinned", or the error it throws
resolvePinnedHostnameWithPolicy(hostname, policy) ==
    IF HostKind(hostname) = "unresolvable" THEN "LookupError"
    ELSE IF HostKind(hostname) = "private" /\ ~policy.allowPrivateIPs
    THEN "SsrfBlockedError"
    ELSE IF HostKind(hostname) = "loopback" /\ ~policy.allowLoopback
    THEN "SsrfBlockedError"
    ELSE "pinned"

\* the try / catch around the re-validation of nextUrl: "SsrfBlockedError"
\* when the catch throws again, "continue" when control leaves the block (the
\* catch drops every other error)
RevalidateRedirectTarget(hostname, policy) ==
    IF resolvePinnedHostnameWithPolicy(hostname, policy) = "SsrfBlockedError"
    THEN "SsrfBlockedError"
    ELSE "continue"

InitFetch ==
    /\ fetchPolicy \in FetchPolicies
    /\ fetchPc = "idle"
    /\ currentUrl = ""
    /\ nextUrl = ""
    /\ redirectCount = 0
    /\ fetchOutcome = "none"
    /\ requestsIssued = <<>>
    \* startTelegramWebhook is not called
    /\ opts = [secretIsString |-> FALSE, secret |-> <<>>]
    /\ pc = "idle"
    /\ secret = <<>>
    /\ error = "none"
    /\ botCreated = FALSE
    /\ handlerSecretToken = <<>>
    /\ heartbeatStarted = FALSE
    /\ setWebhookCalls = <<>>
    /\ listening = FALSE
    \* resolveSafeInstallDir is not called
    /\ params = [baseDir |-> <<>>, id |-> <<>>]
    /\ fsTarget = "absent"
    /\ lstatThrows = FALSE
    /\ dirLinks = <<>>
    /\ result = [kind |-> "idle", path |-> <<>>, error |-> "none"]
    /\ fsCalls = <<>>
    \* no AuthRateLimiter is in use
    /\ limiterConfig = [maxAttempts |-> 1, windowMs |-> 1, lockoutMs |-> 1,
                        exemptLoopback |-> TRUE]
    /\ now = 0
    /\ attempts = <<>>
    /\ inflight = <<>>
    /\ lastDecision = [op |-> "none"]
    /\ serialAttempts = <<>>
    \* no pair of identifiers is resolved
    /\ pairParams = [baseDir |-> <<>>, idA |-> <<>>, idB |-> <<>>]
    /\ pairResults = <<[kind |-> "idle", path |-> <<>>, error |-> "none"]>>
    \* opts.abortSignal is not given
    /\ abortSignal = "none"
    /\ shutdownRegistered = FALSE
    /\ serverClosed = FALSE
    /\ botStopped = FALSE
    \* the server receives no request
    /\ webhookPaths = [path |-> "", healthPath |-> ""]
    /\ req = [url |-> "", method |-> ""]
    /\ reqPc = "off"
    /\ guard = [installed |-> FALSE, trippedAtInstall |-> FALSE, tripped |-> FALSE, disposed |-> 0]
    /\ headersSent = FALSE
    /\ events = <<>>
    \* no WebSocket upgrade is received
    /\ originHeader = [present |-> FALSE, value |-> <<>>]
    /\ hostHeader = [present |-> FALSE, value |-> <<>>]
    /\ upgrade = "off"
    \* foldMarkerText is not called
    /\ markerText = <<>>
    /\ folded = [done |-> TRUE, text |-> <<>>]

\* fetchWithSsrfGuard(url, init, policy) up to its first request: the
\* hostname is resolved and classified before any socket is opened
FetchWithSsrfGuard(hostname) ==
    /\ fetchPc = "idle"
    /\ currentUrl' = hostname
    /\ LET r == resolvePinnedHostnameWithPolicy(hostname, fetchPolicy)
       IN  IF r = "pinned"
           THEN fetchPc' = "request" /\ UNCHANGED fetchOutcome
           ELSE /\ fetchPc' = "done"
                /\ fetchOutcome' = IF r = "SsrfBlockedError" THEN "SsrfBlocked"
                                   ELSE "LookupError"
    /\ UNCHANGED <<fetchPolicy, nextUrl, redirectCount, requestsIssued>>
    /\ UNCHANGED notFetch

\* the request of the present hop is sent and answered with a response that
\* is no redirect
ReceiveResponse ==
    /\ fetchPc = "request"
    /\ requestsIssued' = Append(requestsIssued, currentUrl)
    /\ fetchPc' = "done"
    /\ fetchOutcome' = "Response"
    /\ UNCHANGED <<fetchPolicy, currentUrl, nextUrl, redirectCount>>
    /\ UNCHANGED notFetch

\* the request of the present hop is sent and fails in the network
RequestFails ==
    /\ fetchPc = "request"
    /\ requestsIssued' = Append(requestsIssued, currentUrl)
    /\ fetchPc' = "done"
    /\ fetchOutcome' = "NetworkError"
    /\ UNCHANGED <<fetchPolicy, currentUrl, nextUrl, redirectCount>>
    /\ UNCHANGED notFetch

\* the request of the present hop is sent and answered with a redirect to
\* target: one redirect more than maxRedirects ends the fetch
ReceiveRedirect(target) ==
    /\ fetchPc = "request"
    /\ requestsIssued' = Append(requestsIssued, currentUrl)
    /\ IF redirectCount >= fetchPolicy.maxRedirects
       THEN /\ fetchPc' = "done"
            /\ fetchOutcome' = "TooManyRedirects"
            /\ UNCHANGED <<nextUrl, redirectCount>>
       ELSE /\ fetchPc' = "redirect"
            /\ nextUrl' = target
            /\ redirectCount' = redirectCount + 1
            /\ UNCHANGED fetchOutcome
    /\ UNCHANGED <<fetchPolicy, currentUrl>>
    /\ UNCHANGED notFetch

\* the redirect target is re-validated; unless that throws SsrfBlockedError
\* the next hop is the target
RevalidateRedirect ==
    /\ fetchPc = "redirect"
    /\ IF RevalidateRedirectTarget(nextUrl, fetchPolicy) = "SsrfBlockedError"
       THEN /\ fetchPc' = "done"
            /\ fetchOutcome' = "SsrfBlocked"
            /\ UNCHANGED currentUrl
       ELSE /\ fetchPc' = "request"
            /\ currentUrl' = nextUrl
            /\ UNCHANGED fetchOutcome
    /\ UNCHANGED <<fetchPolicy, nextUrl, redirectCount, requestsIssued>>
    /\ UNCHANGED notFetch

NextFetch ==
    \/ \E hostname \in Hostnames : FetchWithSsrfGuard(hostname)
    \/ ReceiveResponse
    \/ RequestFails
    \/ \E target \in Hostnames : ReceiveRedirect(target)
    \/ RevalidateRedirect

(***************************************************************************)
(* Specifications                                                          *)
(***************************************************************************)
Init ==
    \/ InitWebhook
    \/ InitInstall
    \/ InitRateLimiter
    \/ InitRateLimiterBurst
    \/ InitFetch
    \/ InitInstallPair
    \/ InitWebhookAbort
    \/ InitRequest
    \/ InitOrigin
    \/ InitMarker

Next ==
    \/ StartTelegramWebhook
    \/ SetWebhookResolves
    \/ SetWebhookRejects
    \/ ServerListening
    \/ Abort
    \/ \E url \in RequestUrls, method \in Methods,
          trippedAtInstall \in BOOLEAN, returnsPromise \in BOOLEAN :
          ReceiveRequest(url, method, trippedAtInstall, returnsPromise)
    \/ GuardTrips
    \/ HandlerSendsHeaders
    \/ HandlerFulfils
    \/ HandlerRejects
    \/ ResolveSafeInstallDir
    \/ ResolveBoth
    \/ ValidateOrigin
    \/ FoldMarkerText
    \/ \E p \in DOMAIN inflight, key \in Keys, success \in BOOLEAN :
          CallRecordAttempt(p, key, success)
    \/ \E p \in DOMAIN inflight : AcquireKey(p)
    \/ \E p \in DOMAIN inflight : CompleteRecordAttempt(p)
    \/ \E p \in DOMAIN inflight, key \in Keys : Check(p, key)
    \/ Tick
    \/ \E hostname \in Hostnames : FetchWithSsrfGuard(hostname)
    \/ ReceiveResponse
    \/ RequestFails
    \/ \E target \in Hostnames : ReceiveRedirect(target)
    \/ RevalidateRedirect

Spec == Init /\ [][Next]_vars

\* the webhook startup alone
SpecWebhook == InitWebhook /\ [][NextWebhook]_vars

\* the webhook startup with an abort signal
SpecWebhookAbort == InitWebhookAbort /\ [][NextWebhookAbort]_vars

\* one request to the listening server
SpecRequest == InitRequest /\ [][NextRequest]_vars

\* the install path resolver alone
SpecInstall == InitInstall /\ [][NextInstall]_vars

\* pairs of identifiers under one baseDir
SpecInstallPair == InitInstallPair /\ [][NextInstallPair]_vars

\* the Origin check of one upgrade
SpecOrigin == InitOrigin /\ [][NextOrigin]_vars

\* foldMarkerText alone
SpecMarker == InitMarker /\ [][NextMarker]_vars

\* the rate limiter alone
SpecRateLimiter == InitRateLimiter /\ [][NextRateLimiter]_vars

\* simultaneous calls of the rate limiter
SpecRateLimiterBurst == InitRateLimiterBurst /\ [][NextRateLimiterBurst]_vars

\* the guarded fetch alone
SpecFetch == InitFetch /\ [][NextFetch]_vars

(***************************************************************************)
(* Properties of the install path resolver (specification SpecInstall)     *)
(***************************************************************************)
\* resolveSafeInstallDir has been called and has ended
Resolved == result.kind \in {"ok", "rejected", "threw"}

\* the segments of an identifier, "/" and "\" both taken as separators
IdSegments(id) == Split(ReplaceAll(Trim(id), "\\", <<Sep>>), Sep)

\* the identifier has a ".." segment set off by "/" or "\"
AttemptsTraversal(id) ==
    /\ \E i \in 1..Len(id) : id[i] \in {"/", "\\"}
    /\ \E i \in 1..Len(IdSegments(id)) : IdSegments(id)[i] = DotDot

\* the path is the child of baseDir named name
DirectChild(path, baseDir, name) ==
    /\ name # <<>>
    /\ \A i \in 1..Len(name) : name[i] # Sep
    /\ ResolveSegs(path) = Append(ResolveSegs(baseDir), name)

SrvP == <<"/", "s", "r", "v", "/", "p">>
TraversalTarget ==
    SrvP \o <<"/", ".", ".", "_", "_", ".", ".", "_", "_", "e", "t", "c",
              "_", "_", "p", "a", "s", "s", "w", "d">>

C7_NeverThrows == result.kind # "threw"

\* C8 (as stated): with a symbolic link at the candidate path, whether or not
\* its target exists, the call never yields Ok (lstat itself working).
C8_SymlinkNeverOk ==
    (Resolved /\ fsTarget \in {"symlink", "dangling_symlink"} /\ ~lstatThrows)
        => result.kind # "ok"

\* the existence check or the no-follow stat of the candidate fails
StatUnreadable ==
    \/ fsTarget = "unsearchable"
    \/ ExistsSync(fsTarget) /\ lstatThrows

C10_OkIsDirectChild ==
    result.kind = "ok" =>
        /\ DirectChild(result.path, params.baseDir, safeDirName(params.id))
        /\ Resolve(result.path) # Resolve(params.baseDir)
        /\ (params.id = MyPluginId /\ params.baseDir = SrvP) =>
              result.path = SrvP \o <<Sep>> \o MyPluginId

C10_Witness ==
    /\ params.id = MyPluginId
    /\ params.baseDir = SrvP
    /\ result.kind = "ok"
    /\ result.path = SrvP \o <<Sep>> \o MyPluginId

RECURSIVE RealSegs(_, _, _)
\* the directory the operating system reaches walking segs from directory
\* cur: ".." is the parent of the directory reached so far, and a segment
\* that names a symbolic link is replaced by the link's target
RealSegs(segs, cur, links) ==
    IF segs = <<>> THEN cur
    ELSE LET x    == Head(segs)
             next == IF x = <<>> \/ x = <<".">> THEN cur
                     ELSE IF x = DotDot
                     THEN (IF cur = <<>> THEN cur ELSE Front(cur))
                     ELSE IF Append(cur, x) \in DOMAIN links
                     THEN links[Append(cur, x)]
                     ELSE Append(cur, x)
         IN  RealSegs(Tail(segs), next, links)

\* the segments of p taken from the root
FromRoot(p) == Split(IF IsAbsolute(p) THEN p ELSE Cwd \o <<Sep>> \o p, Sep)

\* canonical form of a directory: every symbolic link resolved
Canonical(p, links) == RealSegs(FromRoot(p), <<>>, links)

\* canonical form of a path whose last segment is kept as it is
CanonicalKeepLeaf(p, links) ==
    Append(RealSegs(Front(FromRoot(p)), <<>>, links), Last(FromRoot(p)))

StrictDescendant(child, parent) ==
    /\ Len(child) > Len(parent)
    /\ SubSeq(child, 1, Len(parent)) = parent

\* the relative path resolveSafeInstallDir computes for the call's arguments
CandidateRelative ==
    Relative(Resolve(params.baseDir),
             Resolve(Join(params.baseDir, safeDirName(params.id))))

\* the relative path is empty, is "..", starts with a ".." segment or is
\* absolute
RelativeLeavesBase(relative) ==
    \/ relative = <<>>
    \/ Split(relative, Sep)[1] = DotDot
    \/ relative[1] = Sep

\* the call got past safeDirName and is rejected exactly when the relative
\* path leaves baseDir
RejectsWhenRelativeLeaves ==
    (Resolved /\ result.kind # "threw") =>
        (RelativeLeavesBase(CandidateRelative)
            <=> result.error = "invalidNameMessage")

\* C11 (as stated): every Ok path's canonical form, symbolic links resolved
\* for its ancestor directories but not for its leaf, is a strict descendant
\* of baseDir's canonical form; the call is rejected when the relative path
\* is empty, "..", starts with a ".." segment or is absolute.
C11_CanonicalDescendant ==
    /\ result.kind = "ok" =>
          StrictDescendant(CanonicalKeepLeaf(result.path, dirLinks),
                           Canonical(params.baseDir, dirLinks))
    /\ RejectsWhenRelativeLeaves

\* baseDir has a ".." segment
HasDotDot(dir) == \E i \in 1..Len(Split(dir, Sep)) : Split(dir, Sep)[i] = DotDot

\* C11 (amended): every Ok path, as path.resolve gives it (no symbolic link
\* resolved, "." and ".." removed textually), is a strict descendant of
\* path.resolve(baseDir); the canonical forms are in that relation too when
\* no directory is a symbolic link or baseDir has no ".." segment.  The call
\* is rejected when the relative path is empty, "..", starts with a ".."
\* segment or is absolute.
C11_LexicalDescendant ==
    /\ result.kind = "ok" =>
          /\ StrictDescendant(ResolveSegs(result.path),
                              ResolveSegs(params.baseDir))
          /\ (dirLinks = NoLinks \/ ~HasDotDot(params.baseDir)) =>
                StrictDescendant(CanonicalKeepLeaf(result.path, dirLinks),
                                 Canonical(params.baseDir, dirLinks))
    /\ RejectsWhenRelativeLeaves

SrvDotDotP == <<"/", "s", "r", "v", "/", ".", ".", "/", "p">>

\* /srv is a link to /mnt/x, baseDir is /srv/../p (canonically /mnt/p) and
\* the call yields Ok(/p/a)
C11_Witness ==
    /\ dirLinks = SrvLinked
    /\ params.baseDir = SrvDotDotP
    /\ params.id = <<"a">>
    /\ result.kind = "ok"
    /\ result.path = <<"/", "p", "/", "a">>
    /\ Canonical(params.baseDir, dirLinks) = << <<"m", "n", "t">>, <<"p">> >>

\* the control characters and path-control characters
ControlOrPathChars ==
    {"U+0000", "U+0001", "U+001F", "U+007F", "\t", "\n", "\r",
     ":", "*", "?", "\"", "<", ">", "|"}

HasSeparator(id) == \E i \in 1..Len(id) : id[i] \in {"/", "\\"}

\* how many "/" and "\" the string holds
SeparatorCount(id) == Cardinality({i \in 1..Len(id) : id[i] \in {"/", "\\"}})

ReservedNameList ==
    { <<".">>, <<".", ".">>,
      <<"n", "o", "d", "e", "_", "m", "o", "d", "u", "l", "e", "s">>,
      <<".", "g", "i", "t">>, <<".", "e", "n", "v">>,
      <<"s", "y", "s", "t", "e", "m">>, <<"r", "o", "o", "t">>,
      <<"a", "d", "m", "i", "n">>, <<"c", "o", "n", "f", "i", "g">>,
      <<"e", "t", "c">>, <<"b", "i", "n">>, <<"s", "b", "i", "n">>,
      <<"b", "o", "o", "t">>, <<"d", "e", "v">>, <<"p", "r", "o", "c">>,
      <<"s", "y", "s">> }

\* C13: an identifier that, trimmed and in lower case, is a reserved name
\* never yields Ok: the call ends with the reserved-name Error before any
\* filesystem call.
C13_ReservedNeverOk ==
    (Resolved /\ ToLowerCase(Trim(params.id)) \in ReservedNameList) =>
        /\ result.kind # "ok"
        /\ result.error = "reserved"
        /\ fsCalls = <<>>

C13_Witness ==
    /\ params.id = <<" ", "S", "Y", "S", " ">>
    /\ result.kind = "threw"
    /\ result.error = "reserved"

\* C14: an identifier that is empty or only whitespace never yields Ok: the
\* call is rejected with invalidNameMessage, gives no path (not baseDir) and
\* makes no filesystem call.
C14_EmptyNeverOk ==
    (Resolved /\ \A i \in 1..Len(params.id) : params.id[i] \in WhiteSpace) =>
        /\ result.kind = "rejected"
        /\ result.error = "invalidNameMessage"
        /\ result.path = <<>>
        /\ fsCalls = <<>>

C14_Witness ==
    /\ params.id = <<" ", " ">>
    /\ params.baseDir = SrvP
    /\ fsTarget = "directory"
    /\ result.kind = "rejected"

\* C15: an identifier that after trimming holds a control character or one
\* of : * ? " < > | never yields Ok, and no filesystem call is made for it.
C15_InvalidCharNeverOk ==
    (Resolved /\ \E i \in 1..Len(Trim(params.id)) :
                     Trim(params.id)[i] \in ControlOrPathChars) =>
        /\ result.kind # "ok"
        /\ fsCalls = <<>>

C15_Witness ==
    /\ params.id = <<"a", "U+0000", "b">>
    /\ result.kind = "threw"
    /\ result.error = "invalid"

\* the identifier fails safeDirName: trimmed, it is a reserved name in some
\* case or holds a character of the rejected class
FailsSanitization(id) ==
    \/ ToLowerCase(Trim(id)) \in ReservedNameList
    \/ \E i \in 1..Len(Trim(id)) : Trim(id)[i] \in ControlOrPathChars

\* C23: the checks run in the order sanitize, containment, symlink.  The
\* filesystem is called only when the identifier passed safeDirName and the
\* relative path stays below baseDir, and then with existsSync first and
\* lstatSync only for an entry that exists; a call that fails sanitization
\* or containment ends without Ok and without a filesystem call, the
\* sanitization failure winning when both apply; a symlink rejection comes
\* only after both earlier checks passed.
C23_FilesystemLast ==
    Resolved =>
        IF FailsSanitization(params.id)
        THEN /\ result.kind = "threw"
             /\ result.error \in {"reserved", "invalid"}
             /\ fsCalls = <<>>
        ELSE IF RelativeLeavesBase(CandidateRelative)
        THEN /\ result.kind = "rejected"
             /\ result.error = "invalidNameMessage"
             /\ fsCalls = <<>>
        ELSE /\ fsCalls = IF ExistsSync(fsTarget)
                          THEN <<"existsSync", "lstatSync">>
                          ELSE <<"existsSync">>
             /\ result.kind \in {"ok", "rejected"}
             /\ result.kind = "rejected" =>
                   (result.error = "symlink" /\ Len(fsCalls) = 2)

\* a symbolic link exists in the filesystem and the call for the reserved
\* name ".." ends before any filesystem call
C23_Witness ==
    /\ fsTarget = "symlink"
    /\ params.id = <<".", ".">>
    /\ params.baseDir = SrvP
    /\ result.kind = "threw"
    /\ fsCalls = <<>>

(***************************************************************************)
(* Properties of pairs of identifiers (specification SpecInstallPair)      *)
(***************************************************************************)
\* every "/" and every "\" of the trimmed identifier replaced by "__"
Underscored(id) ==
    ReplaceAll(ReplaceAll(Trim(id), "/", <<"_", "_">>), "\\", <<"_", "_">>)

BothOk ==
    /\ pairResults # <<>>
    /\ pairResults[1].kind = "ok"
    /\ pairResults[2].kind = "ok"

\* C30: when two identifiers both yield Ok under one baseDir, their paths
\* are equal exactly when the trimmed identifiers are equal once every "/"
\* and every "\" is replaced by "__"; so "a/b", "a\b" and "a__b" share one
\* path and identifiers that differ otherwise get distinct paths.
C30_CollideOnlyBySeparators ==
    BothOk =>
        (pairResults[1].path = pairResults[2].path
            <=> Underscored(pairParams.idA) = Underscored(pairParams.idB))

\* "a/b" and "a__b" both yield /srv/p/a__b
C30_Witness ==
    /\ BothOk
    /\ pairParams.idA = <<"a", "/", "b">>
    /\ pairParams.idB = <<"a", "_", "_", "b">>
    /\ pairParams.baseDir = SrvP
    /\ pairResults[1].path = pairResults[2].path
    /\ pairResults[1].path = SrvP \o <<"/", "a", "_", "_", "b">>

(***************************************************************************)
(* Properties of the Origin check (specification SpecOrigin)               *)
(***************************************************************************)
\* both headers parse, and the Origin's host is the Host header's host or
\* the Origin's hostname is a loopback address
SameHostOrLoopback ==
    /\ hostHeader.present
    /\ ParseUrl(originHeader.value).ok
    /\ ParseUrl(HttpPrefix \o hostHeader.value).ok
    /\ \/ ParseUrl(originHeader.value).host
            = ParseUrl(HttpPrefix \o hostHeader.value).host
       \/ isLoopbackAddress(ParseUrl(originHeader.value).hostname)

\* C21 (as stated): the upgrade is accepted when no Origin header came; when
\* one came it is accepted only if both headers parse and the hosts are
\* equal or the Origin's hostname is loopback, and is rejected (403, socket
\* destroyed) in every other case, a malformed Origin or Host among them.
C21_AcceptsOnlySameHostOrLoopback ==
    upgrade # "none" =>
        /\ ~originHeader.present => upgrade = "accepted"
        /\ originHeader.present =>
              upgrade = IF SameHostOrLoopback THEN "accepted" ELSE "rejected"

(***************************************************************************)
(* Properties of foldMarkerText (specification SpecMarker)                 *)
(***************************************************************************)
\* the text is made of ASCII letters, look-alikes of the table and
\* zero-width characters only
Disguised(text) ==
    \A i \in 1..Len(text) :
        text[i] \in Range(UpperCase) \cup Range(LowerCase)
                    \cup DOMAIN additionalMappings \cup ZeroWidthChars

\* the plain string behind a disguised text: every look-alike replaced by
\* its Latin letter, the zero-width characters left out
Plain(text) ==
    [i \in 1..Len(Remove(text, ZeroWidthChars)) |->
        LET c == Remove(text, ZeroWidthChars)[i]
        IN  IF c \in DOMAIN additionalMappings THEN additionalMappings[c]
            ELSE c]

\* C22 (as stated): a text of ASCII letters, table-listed Cyrillic or Greek
\* look-alikes and zero-width characters is folded to the canonical text of
\* the plain ASCII string behind it, which is that string itself.
C22_LookalikesFoldToAscii ==
    (folded.done /\ Disguised(markerText)) =>
        /\ folded.text = foldMarkerText(Plain(markerText))
        /\ folded.text = Plain(markerText)

(***************************************************************************)
(* Properties of AuthRateLimiter (SpecRateLimiter, SpecRateLimiterBurst)   *)
(***************************************************************************)
LoopbackKey == "127.0.0.1"
RemoteKey == "203.0.113.7"

\* the last Decision was for a key the configuration does not exempt
DecidedNonExempt ==
    /\ lastDecision.op # "none"
    /\ ~(limiterConfig.exemptLoopback /\ lastDecision.key = LoopbackKey)

\* the key had a record when the last call was decided
HadRecord == lastDecision.key \in DOMAIN lastDecision.before

\* that record
RecordBefore == lastDecision.before[lastDecision.key]

\* the key was locked when the last call was decided
WasLocked ==
    /\ HadRecord
    /\ "lockedUntil" \in DOMAIN RecordBefore
    /\ lastDecision.at < RecordBefore.lockedUntil

\* the key's lockout had run out when the last call was decided
LockoutHadPassed ==
    /\ HadRecord
    /\ "lockedUntil" \in DOMAIN RecordBefore
    /\ lastDecision.at >= RecordBefore.lockedUntil

\* the key had never been locked in its record, which counted n failures
HadOpenRecordWith(n) ==
    /\ HadRecord
    /\ "lockedUntil" \notin DOMAIN RecordBefore
    /\ RecordBefore.count = n

\* C16: for a key that is not exempt, the failed recordAttempt that is the
\* (maxAttempts + 1)-th of its window is answered allowed=false with
\* retryAfter = lockoutMs and locks the key until now + lockoutMs, while an
\* earlier failure of the window is allowed; the first recordAttempt after
\* lockedUntil is allowed and leaves the state fresh: no record after a
\* success, a record with count 1 and a window starting now after a failure.
C16_LockoutThenRelease ==
    (DecidedNonExempt /\ lastDecision.op = "recordAttempt") =>
        LET k  == lastDecision.key
            at == lastDecision.at
        IN  /\ ( /\ ~lastDecision.success
                 /\ HadOpenRecordWith(limiterConfig.maxAttempts)
                 /\ at - RecordBefore.windowStart < limiterConfig.windowMs ) =>
                    /\ lastDecision.decision =
                          [allowed |-> FALSE,
                           retryAfter |-> limiterConfig.lockoutMs]
                    /\ attempts[k] =
                          [count |-> limiterConfig.maxAttempts + 1,
                           windowStart |-> RecordBefore.windowStart,
                           lockedUntil |-> at + limiterConfig.lockoutMs]
            /\ ( /\ ~lastDecision.success
                 /\ \/ ~HadRecord
                    \/ \E n \in 1..(limiterConfig.maxAttempts - 1) :
                          HadOpenRecordWith(n) ) =>
                    lastDecision.decision = [allowed |-> TRUE]
            /\ LockoutHadPassed =>
                    /\ lastDecision.decision = [allowed |-> TRUE]
                    /\ lastDecision.success => k \notin DOMAIN attempts
                    /\ ~lastDecision.success =>
                          attempts[k] = [count |-> 1, windowStart |-> at]

\* a failed attempt after a lockout shorter than the window: the old window
\* has not run out, the attempt is allowed and opens a window of its own
C16_Witness ==
    /\ lastDecision.op = "recordAttempt"
    /\ lastDecision.key = RemoteKey
    /\ ~lastDecision.success
    /\ LockoutHadPassed
    /\ lastDecision.at - RecordBefore.windowStart < limiterConfig.windowMs
    /\ RecordBefore.count = limiterConfig.maxAttempts + 1
    /\ lastDecision.decision = [allowed |-> TRUE]
    /\ attempts[RemoteKey] = [count |-> 1, windowStart |-> lastDecision.at]

\* C17: while a key that is not exempt is locked, every recordAttempt and
\* every check on it is answered allowed=false with a retryAfter, whether the
\* attempt succeeded or failed, and the key's record stays as it was.
C17_LockedRejectsAll ==
    (DecidedNonExempt /\ WasLocked) =>
        /\ lastDecision.decision =
              [allowed |-> FALSE,
               retryAfter |-> RecordBefore.lockedUntil - lastDecision.at]
        /\ lastDecision.key \in DOMAIN attempts
        /\ attempts[lastDecision.key] = RecordBefore

C17_Witness ==
    /\ lastDecision.op = "recordAttempt"
    /\ lastDecision.key = RemoteKey
    /\ lastDecision.success
    /\ WasLocked
    /\ ~lastDecision.decision.allowed
    /\ attempts[RemoteKey].lockedUntil > now

\* C18: with exemptLoopback the loopback key never has a record, so it is
\* never locked, and every Decision for it is allowed=true.
C18_LoopbackNeverLocked ==
    limiterConfig.exemptLoopback =>
        /\ LoopbackKey \notin DOMAIN attempts
        /\ (lastDecision.op # "none" /\ lastDecision.key = LoopbackKey) =>
              lastDecision.decision = [allowed |-> TRUE]

\* a failed attempt of the loopback key is allowed while the remote key,
\* under the same limiter, is locked
C18_Witness ==
    /\ limiterConfig.exemptLoopback
    /\ lastDecision.op = "recordAttempt"
    /\ lastDecision.key = LoopbackKey
    /\ ~lastDecision.success
    /\ lastDecision.decision = [allowed |-> TRUE]
    /\ IsLockedAt(attempts, RemoteKey, now)

\* C19: whatever the interleaving of simultaneous calls, the map is the one
\* the completed calls give when run one after another, and a key is locked
\* exactly when its record counts more than maxAttempts failures.
C19_NoLostIncrement ==
    /\ attempts = serialAttempts
    /\ \A k \in DOMAIN attempts :
          attempts[k].count > limiterConfig.maxAttempts
              <=> "lockedUntil" \in DOMAIN attempts[k]

\* the failure that locks the key completes while another call on the same
\* key is under way
C19_Witness ==
    /\ lastDecision.op = "recordAttempt"
    /\ lastDecision.key = RemoteKey
    /\ lastDecision.overlapped
    /\ ~lastDecision.success
    /\ ~lastDecision.decision.allowed
    /\ attempts[RemoteKey].count = limiterConfig.maxAttempts + 1
    /\ \E p \in DOMAIN inflight :
          inflight[p] # Idle /\ inflight[p].key = RemoteKey

(***************************************************************************)
(* Properties of fetchWithSsrfGuard (specification SpecFetch)              *)
(***************************************************************************)
\* the hostname resolves and its addresses pass the policy of the fetch
ResolvesAndPasses(hostname) ==
    \/ HostKind(hostname) = "public"
    \/ HostKind(hostname) = "private" /\ fetchPolicy.allowPrivateIPs
    \/ HostKind(hostname) = "loopback" /\ fetchPolicy.allowLoopback

\* the last redirect target has been through its re-validation
TargetRevalidated == nextUrl # "" /\ fetchPc # "redirect"

\* C20 (as stated): the request of a redirect hop is sent only to a hostname
\* that has been resolved and has passed the policy; a redirect to a
\* hostname the policy blocks ends the fetch with SsrfBlocked at that hop;
\* a redirect target that cannot be resolved is not followed.
C20_EveryHopRevalidated ==
    /\ \A i \in 2..Len(requestsIssued) : ResolvesAndPasses(requestsIssued[i])
    /\ (fetchPc = "request" /\ redirectCount > 0) =>
          ResolvesAndPasses(currentUrl)
    /\ (TargetRevalidated /\ HostKind(nextUrl) # "unresolvable"
        /\ ~ResolvesAndPasses(nextUrl)) =>
          /\ fetchPc = "done"
          /\ fetchOutcome = "SsrfBlocked"
    /\ (TargetRevalidated /\ HostKind(nextUrl) = "unresolvable") =>
          /\ fetchPc = "done"
          /\ fetchOutcome \notin {"Response", "NetworkError", "none"}

(***************************************************************************)
(* Properties of the webhook secret (specification SpecWebhook)            *)
(***************************************************************************)
\* sign of (Shannon entropy of str over its code points) - num/den
ShannonEntropy(str, num, den) ==
    IF str = <<>>
    THEN (IF num > 0 THEN -1 ELSE 0)
    ELSE EntropySumCmp(str, Len(str), num, den)

\* startTelegramWebhook got past the secret checks
PastValidation == botCreated \/ setWebhookCalls # <<>> \/ listening

\* C2: past the secret checks, the secret in use is the trimmed opts.secret,
\* has at least 32 UTF-16 code units and a Shannon entropy of at least 3.5
\* bits per character.
C2_AcceptedSecretIsStrong ==
    PastValidation =>
        /\ opts.secretIsString
        /\ secret = Trim(opts.secret)
        /\ StrLength(secret) >= 32
        /\ ShannonEntropy(secret, 7, 2) >= 0

C2_Witness ==
    /\ listening
    /\ StrLength(opts.secret) > StrLength(secret)
    /\ \E i \in 1..Len(secret) : secret[i] \in AstralChars

\* C3: a rejected secret makes startTelegramWebhook throw with no startup
\* side effect: no bot, no handler, no heartbeat, no setWebhook, no listen.
C3_RejectionHasNoSideEffect ==
    error \in SecretErrors =>
        /\ pc = "threw"
        /\ ~botCreated
        /\ handlerSecretToken = <<>>
        /\ ~heartbeatStarted
        /\ setWebhookCalls = <<>>
        /\ ~listening

C3_Witness == pc = "threw" /\ error = "LowEntropy" /\ ~botCreated

\* C28: bot.api.setWebhook is called and its promise awaited before the
\* server listens: the server does not listen while setWebhook is pending
\* and listens only after a setWebhook call; startTelegramWebhook has
\* returned only when the server listens; when setWebhook fails the function
\* has thrown and the server does not listen, then or later.
C28_SetWebhookBeforeListen ==
    /\ pc \in {"init", "awaitSetWebhook", "awaitListen"} => ~listening
    /\ listening => Len(setWebhookCalls) = 1
    /\ pc = "awaitListen" => (Len(setWebhookCalls) = 1 /\ error = "none")
    /\ pc = "returned" => (listening /\ error = "none")
    /\ error = "SetWebhookFailed" =>
          /\ pc = "threw"
          /\ ~listening
          /\ Len(setWebhookCalls) = 1

\* setWebhook was called and failed: startTelegramWebhook threw, no listen
C28_Witness ==
    /\ error = "SetWebhookFailed"
    /\ pc = "threw"
    /\ setWebhookCalls # <<>>
    /\ ~listening

\* C29: the secretToken of the request handler and the secret_token of every
\* setWebhook call are one value, the trimmed opts.secret that passed the
\* checks (32 code units, entropy 3.5), whatever blanks opts.secret carries.
C29_OneTrimmedToken ==
    (handlerSecretToken # <<>> \/ setWebhookCalls # <<>>) =>
        /\ opts.secretIsString
        /\ handlerSecretToken = Trim(opts.secret)
        /\ handlerSecretToken = secret
        /\ \A i \in 1..Len(setWebhookCalls) :
               setWebhookCalls[i] = handlerSecretToken
        /\ setWebhookCalls # <<>>
        /\ StrLength(handlerSecretToken) >= 32
        /\ ShannonEntropy(handlerSecretToken, 7, 2) >= 0

\* opts.secret carries blanks; handler and setWebhook hold it without them
C29_Witness ==
    /\ setWebhookCalls = <<handlerSecretToken>>
    /\ handlerSecretToken # <<>>
    /\ opts.secret # handlerSecretToken
    /\ Trim(opts.secret) = handlerSecretToken
    /\ pc = "awaitSetWebhook"

\* no step of startTelegramWebhook is left to run
StartupEnded == pc \in {"returned", "threw"}

\* C24 (as stated): once opts.abortSignal has aborted, whenever that was,
\* and startTelegramWebhook has run to its end, the server does not listen
\* and, if startup returned, server.close and bot.stop were called.
C24_AbortLeadsToShutdown ==
    (abortSignal = "aborted" /\ StartupEnded) =>
        /\ ~listening
        /\ pc = "returned" => (serverClosed /\ botStopped)

(***************************************************************************)
(* Properties of the request listener (specification SpecRequest)          *)
(***************************************************************************)
\* how often e was done for the request
Times(e) == Cardinality({i \in 1..Len(events) : events[i] = e})

\* the first position of e among the events, 0 when it is not there
Position(e) ==
    IF Times(e) = 0 THEN 0
    ELSE CHOOSE i \in 1..Len(events) :
             events[i] = e /\ \A j \in 1..(i - 1) : events[j] # e

\* the request has been taken up by the listener
Received == reqPc \in {"pending", "done"}

\* the handler's promise has settled
Settled == Times("fulfilled") + Times("rejected") > 0

\* C25: the update handler is invoked only for a request whose URL is the
\* webhook path itself, whose method is POST and whose guard was not tripped
\* when installed; a request to the health path gets 200 "ok" whatever its
\* method; any other request off path+POST gets 404, no guard and no
\* handler.
C25_HandlerOnlyForPathAndPost ==
    Received =>
        /\ Times("handler") > 0 =>
              /\ req.url = webhookPaths.path
              /\ req.method = "POST"
              /\ guard.installed /\ ~guard.trippedAtInstall
        /\ req.url = webhookPaths.healthPath =>
              /\ events = <<"writeHead:200", "end:ok">>
              /\ ~guard.installed
        /\ (req.url # webhookPaths.healthPath
            /\ (req.url # webhookPaths.path \/ req.method # "POST")) =>
              /\ events = <<"writeHead:404", "end">>
              /\ ~guard.installed
        /\ guard.trippedAtInstall => Times("handler") = 0

\* a GET of the webhook path is answered 404
C25_Witness ==
    /\ reqPc = "done"
    /\ req = [url |-> "/telegram-webhook", method |-> "GET"]
    /\ webhookPaths.path = "/telegram-webhook"
    /\ events = <<"writeHead:404", "end">>

\* C26: when the handler was invoked the guard is disposed once, never more,
\* and only after handling has finished: not while the handler's promise is
\* pending, after the promise has settled and the then or catch callback has
\* run when there was a promise, right after the handler returned otherwise.
C26_DisposedOnceAfterHandling ==
    /\ Times("dispose") <= 1
    /\ guard.disposed = Times("dispose")
    /\ Times("dispose") = 1 => Times("handler") = 1
    /\ reqPc = "pending" =>
          (Times("handler") = 1 /\ Times("dispose") = 0 /\ ~Settled)
    /\ (reqPc = "done" /\ Times("handler") = 1) =>
          /\ Times("dispose") = 1
          /\ Position("dispose") = Len(events)
          /\ ~Settled => Position("dispose") = Position("handler") + 1

\* the handler's promise was rejected after the guard had tripped, and the
\* guard was disposed after that
C26_Witness ==
    /\ reqPc = "done"
    /\ Times("rejected") = 1
    /\ guard.tripped
    /\ guard.disposed = 1
    /\ Position("dispose") > Position("rejected")

\* what was done for the request from the rejection on, the disposal left out
AfterRejection ==
    SubSeq(events, Position("rejected") + 1, Len(events) - 1)

\* C27: after the handler's promise was rejected, a tripped guard means no
\* status written, nothing logged and the response not ended by the catch
\* callback; otherwise the failure is logged, 500 is written exactly when no
\* headers had been sent, and the response is ended.  No writeHead follows
\* sent headers.
C27_FailurePath ==
    Times("rejected") > 0 =>
        /\ guard.tripped => AfterRejection = <<>>
        /\ ~guard.tripped =>
              /\ Times("runtime.log") = 1
              /\ DiagnosticsEnabled <=> Times("logWebhookError") = 1
              /\ Times("writeHead:500") = 1
                    <=> Times("handler sends headers") = 0
              /\ Times("end") = 1
              /\ Position("end") = Len(events) - 1
              /\ Times("writeHead:500") = 1 =>
                    /\ Position("writeHead:500") = Position("end") - 1
                    /\ Position("runtime.log") < Position("writeHead:500")
        /\ (Times("handler sends headers") + Times("guard answers") > 0) =>
              Times("writeHead:500") = 0

\* the handler had sent headers before its promise was rejected: the
\* failure is logged and the response ended without a second status
C27_Witness ==
    /\ Times("rejected") = 1
    /\ Times("handler sends headers") = 1
    /\ ~guard.tripped
    /\ Times("writeHead:500") = 0
    /\ Times("runtime.log") = 1
    /\ Times("end") = 1

\* the entropy the code computes for the secret is below 3.5
ComputedEntropyLow(s) ==
    calculateEntropy(s, MIN_WEBHOOK_SECRET_ENTROPY_NUM,
                     MIN_WEBHOOK_SECRET_ENTROPY_DEN) < 0

C5_ShortIsTooShort ==
    (pc # "init" /\ StrLength(secret) < 32) => error = "TooShort"

\* C5 (amended): every secret that is not empty after trimming and is
\* shorter than 32 is rejected with TooShort whatever its content; the empty
\* secret is rejected with EmptySecret.
C5_NonEmptyShortIsTooShort ==
    pc # "init" =>
        /\ (secret # <<>> /\ StrLength(secret) < 32) => error = "TooShort"
        /\ secret = <<>> => error = "EmptySecret"

C5_Witness ==
    /\ error = "TooShort"
    /\ StrLength(secret) = 31
    /\ Cardinality({secret[i] : i \in 1..Len(secret)}) >= 13

\* the string is one code point repeated
SingleRepeated(s) == s # <<>> /\ \A i \in 1..Len(s) : s[i] = s[1]

\* C6 (as stated): for a secret of length >= 32 made of one repeated
\* character the computed entropy is 0 and the error is LowEntropy.
C6_RepeatedCharHasZeroEntropy ==
    (pc # "init" /\ StrLength(secret) >= 32 /\ SingleRepeated(secret)) =>
        /\ calculateEntropy(secret, 0, 1) = 0
        /\ error = "LowEntropy"

====
